---- MODULE Spec2Model ----
(***************************************************************************)
(* Content compilation and storage pipeline of anan_blog:                  *)
(*   Scanner (content/scanner.rs), link rewriting (content/markdown.rs),   *)
(*   Compiler::compile (content/compiler.rs) and StorageDB                 *)
(*   (database/storage.rs), with the callers that trigger a compile        *)
(*   (main.rs, web/routes.rs) and the read path (web/routes.rs).           *)
(***************************************************************************)
EXTENDS Integers, Sequences, FiniteSets, TLC

(***************************************************************************)
(* Bounds of the model.                                                    *)
(***************************************************************************)
\* number of compile() invocations explored in one behaviour
MaxCompiles == 2
\* number of edits of the content tree explored in one behaviour
MaxEdits == 1
\* direct calls of the save functions of the storage engine
MaxSaves == 3
\* entries of an attachment directory that scan_attachments is examined on
MaxEntries == 5
\* attachment links of an HTML text that the link rewriting is examined on
MaxRefs == 2
\* attachments of the item whose links are rewritten
MaxPairs == 2
\* blocks of a markdown body that get_title is examined on
MaxBlocks == 2
\* page rows of a store that a search is examined on
MaxRows == 2
\* the largest limit of a search
MaxLimit == 2
\* item directories of a tree that a scan is examined on
MaxTree == 4
\* item directories of a tree that a scan with a failing source is examined on
MaxFaultTree == 2

(***************************************************************************)
(* Strings.  Rust's str operations, computed on TLA+ strings.              *)
(***************************************************************************)
None == "<None>"

\* the bytes that occur in names and dates, in ascending byte order
Alphabet == "-.0123456789ABCDEFGHIJKLMNOPQRSTUVWXYZ_abcdefghijklmnopqrstuvwxyz"

CharAt(s, i) == SubSeq(s, i, i)

CharRank(ch) == CHOOSE i \in 1..Len(Alphabet) : CharAt(Alphabet, i) = ch

\* str::cmp: lexicographic comparison by bytes; "lt", "eq" or "gt"
RECURSIVE StrCmpFrom(_, _, _)
StrCmpFrom(a, b, i) ==
    IF i > Len(a) /\ i > Len(b) THEN "eq"
    ELSE IF i > Len(a) THEN "lt"
    ELSE IF i > Len(b) THEN "gt"
    ELSE IF CharAt(a, i) = CharAt(b, i) THEN StrCmpFrom(a, b, i + 1)
    ELSE IF CharRank(CharAt(a, i)) < CharRank(CharAt(b, i)) THEN "lt" ELSE "gt"

StrCmp(a, b) == StrCmpFrom(a, b, 1)

\* does pat occur in s at position i
MatchAt(s, pat, i) ==
    /\ i + Len(pat) - 1 <= Len(s)
    /\ SubSeq(s, i, i + Len(pat) - 1) = pat

\* str::contains
Contains(s, pat) == \E i \in 1..(Len(s) + 1) : MatchAt(s, pat, i)

\* the first position >= i where pat occurs in s, or 0
FindFrom(s, pat, i) ==
    LET hits == {j \in i..(Len(s) + 1) : MatchAt(s, pat, j)} IN
    IF hits = {} THEN 0 ELSE CHOOSE j \in hits : \A k \in hits : j <= k

\* str::replace: every non-overlapping match of pat, scanning left to right
RECURSIVE ReplaceFrom(_, _, _, _)
ReplaceFrom(s, pat, to, i) ==
    LET j == FindFrom(s, pat, i) IN
    IF j = 0 \/ Len(pat) = 0 THEN SubSeq(s, i, Len(s))
    ELSE SubSeq(s, i, j - 1) \o to \o ReplaceFrom(s, pat, to, j + Len(pat))

Replace(s, pat, to) == ReplaceFrom(s, pat, to, 1)

(***************************************************************************)
(* The content tree on disk.  A tree is the set of item directories that   *)
(* exist; what each directory holds is fixed, and a category directory     *)
(* exists as long as it holds an item directory.                           *)
(***************************************************************************)
\* the item directories the site's author adds and removes
DirIds == {"a/x", "b/x"}

\* the item directories of the trees a single scan is examined on
ScanDirs == DirIds \cup {"a/y", "a/z", "a-x/z", ".h/x", "e/z"}

\* a directory entry as std::fs reports it: name, Path::extension,
\* Path::is_dir, and the bytes (with their length) that fs::read returns
File(name, ext, data, size) ==
    [name |-> name, ext |-> ext, is_dir |-> FALSE, data |-> data, size |-> size]

\* a markdown source, given by what parse_markdown makes of it
Doc(stem, title, date, html) ==
    [stem |-> stem, title |-> title, date |-> date, html |-> html]

DirOf(d) ==
    CASE d = "a/x" ->
           [category |-> "a", dir_name |-> "x",
            docs |-> {Doc("x", "X", "2024-01-02",
                          "<img src=\"attachment/p.jpg\"><a href=\"./attachment/q.png\">")},
            files |-> {File("p.jpg", "jpg", "P1", 2), File("q.png", "png", "Q1", 3)}]
      [] d = "b/x" ->
           [category |-> "b", dir_name |-> "x",
            docs |-> {Doc("x", "BX", None, "<img src=\"attachment/p.jpg\">")},
            files |-> {File("p.jpg", "jpg", "P2", 4)}]
      \* two markdown files in one item directory
      [] d = "a/y" ->
           [category |-> "a", dir_name |-> "y",
            docs |-> {Doc("n", "N", None, "<p>n</p>"),
                      Doc("m", "M", "2024-03-01", "<p>m</p>")},
            files |-> {}]
      \* a markdown file with the stem of the one in a/x
      [] d = "a/z" ->
           [category |-> "a", dir_name |-> "z",
            docs |-> {Doc("x", "Z", None, "<p>z</p>")},
            files |-> {}]
      \* item directories without a markdown file
      [] d = "a-x/z" ->
           [category |-> "a-x", dir_name |-> "z", docs |-> {}, files |-> {}]
      [] d = "e/z" ->
           [category |-> "e", dir_name |-> "z", docs |-> {}, files |-> {}]
      \* an item of a dot-prefixed category directory
      [] d = ".h/x" ->
           [category |-> ".h", dir_name |-> "x",
            docs |-> {Doc("x", "H", None, "<p>h</p>")},
            files |-> {}]
      \* fruit/apple/apple.md, whose frontmatter date 2024-01-01 is no RFC 3339
      \* time and no NaiveDateTime either, so that get_date returns None
      [] d = "fruit/apple" ->
           [category |-> "fruit", dir_name |-> "apple",
            docs |-> {Doc("apple", "Apple", None,
                          "<p><img src=\"attachment/pic.jpg\">"
                              \o "<a href=\"./attachment/pic.jpg\">pic</a></p>")},
            files |-> {File("pic.jpg", "jpg", "PIC", 3)}]

\* categories that have an index.md, with its frontmatter description
IndexDescription(cat) ==
    CASE cat = "a" -> "A"
      [] cat = "a-x" -> "AX"
      [] cat = "fruit" -> "fruits"
      [] OTHER -> None

HasIndex(cat) == cat \in {"a", "a-x", "fruit"}

\* the category directories of a tree
CategoryDirs(tree) == {DirOf(d).category : d \in tree}

\* every order in which read_dir may return the members of a set
Perms(S) ==
    {p \in [1..Cardinality(S) -> S] : \A x \in S : \E i \in DOMAIN p : p[i] = x}

\* one answer of the file system to every read_dir of a scan: the order of
\* the category directories, of the item directories, and of the files of
\* every attachment directory
Listings(tree) ==
    [cats : Perms(CategoryDirs(tree)),
     items : Perms(tree),
     files : {f \in [tree -> UNION {Perms(DirOf(d).files) : d \in tree}] :
                 \A d \in tree : f[d] \in Perms(DirOf(d).files)},
     docs : {f \in [tree -> UNION {Perms(DirOf(d).docs) : d \in tree}] :
                 \A d \in tree : f[d] \in Perms(DirOf(d).docs)}]

(***************************************************************************)
(* Scanner (content/scanner.rs).                                           *)
(***************************************************************************)
get_mime_type(extension) ==
    CASE extension \in {"jpg", "jpeg"} -> "image/jpeg"
      [] extension = "png" -> "image/png"
      [] extension = "gif" -> "image/gif"
      [] extension = "txt" -> "text/plain"
      [] OTHER -> "application/octet-stream"

\* format!("{}_{}.{}", item_name, counter, extension)
NewName(item_name, counter, extension) ==
    item_name \o "_" \o ToString(counter) \o "." \o extension

\* the while loop that steps the counter past the names already used
RECURSIVE UniqueCounter(_, _, _, _)
UniqueCounter(item_name, counter, extension, used_names) ==
    IF NewName(item_name, counter, extension) \in used_names
    THEN UniqueCounter(item_name, counter + 1, extension, used_names)
    ELSE counter

StartsWithDot(name) == Len(name) > 0 /\ CharAt(name, 1) = "."

\* the for loop of scan_attachments over the listing, from entry i on
RECURSIVE ScanAttachmentsFrom(_, _, _, _, _)
ScanAttachmentsFrom(item_name, entries, i, counter, attachments) ==
    IF i > Len(entries) THEN attachments
    ELSE LET e == entries[i] IN
         IF e.is_dir \/ StartsWithDot(e.name)
         THEN ScanAttachmentsFrom(item_name, entries, i + 1, counter, attachments)
         ELSE LET used_names == {attachments[k].new_name : k \in DOMAIN attachments}
                  n == UniqueCounter(item_name, counter + 1, e.ext, used_names)
                  new_name == NewName(item_name, n, e.ext)
              IN  ScanAttachmentsFrom(item_name, entries, i + 1, n,
                      Append(attachments,
                             [original_name |-> e.name,
                              new_name |-> new_name,
                              file_type |-> e.ext,
                              path |-> "attachment/" \o new_name,
                              file_data |-> e.data,
                              file_size |-> e.size,
                              mime_type |-> get_mime_type(e.ext)]))

\* scan_attachments, had the counter started so that the first name gets 0
scan_attachments_CounterFromZero(item_name, entries) ==
    ScanAttachmentsFrom(item_name, entries, 1, -1, <<>>)

scan_attachments(item_name, entries) ==
    ScanAttachmentsFrom(item_name, entries, 1, 0, <<>>)

scan_item(doc, category_name, dir_name, entries) ==
    [category |-> category_name,
     item_name |-> doc.stem,
     dir_name |-> dir_name,
     url |-> category_name \o "-" \o doc.stem,
     title |-> doc.title,
     date |-> doc.date,
     html_content |-> doc.html,
     attachments |-> scan_attachments(dir_name, entries)]

\* ItemLess, had the arms for one dated and one undated item been swapped
ItemLess_UndatedFirst(a, b) ==
    IF a.date # None /\ b.date # None THEN StrCmp(b.date, a.date) = "lt"
    ELSE IF a.date # None /\ b.date = None THEN FALSE
    ELSE IF a.date = None /\ b.date # None THEN TRUE
    ELSE StrCmp(a.item_name, b.item_name) = "lt"

\* the comparator of items.sort_by: TRUE when it returns Ordering::Less
ItemLess(a, b) ==
    IF a.date # None /\ b.date # None THEN StrCmp(b.date, a.date) = "lt"
    ELSE IF a.date # None /\ b.date = None THEN TRUE
    ELSE IF a.date = None /\ b.date # None THEN FALSE
    ELSE StrCmp(a.item_name, b.item_name) = "lt"

\* slice::sort_by is a stable sort: an element goes before the first
\* element it is Less than
RECURSIVE InsertItem(_, _)
InsertItem(x, sorted) ==
    IF sorted = <<>> THEN <<x>>
    ELSE IF ItemLess(x, Head(sorted)) THEN <<x>> \o sorted
    ELSE <<Head(sorted)>> \o InsertItem(x, Tail(sorted))

RECURSIVE SortItemsFrom(_, _)
SortItemsFrom(seq, i) ==
    IF i = 0 THEN <<>> ELSE InsertItem(seq[i], SortItemsFrom(seq, i - 1))

SortItems(seq) == SortItemsFrom(seq, Len(seq))

\* the items of one item directory, in the order its listing gives the docs
RECURSIVE ItemsOfDir(_, _, _)
ItemsOfDir(d, listing, i) ==
    IF i > Len(listing.docs[d]) THEN <<>>
    ELSE <<scan_item(listing.docs[d][i], DirOf(d).category,
                     DirOf(d).dir_name, listing.files[d])>>
         \o ItemsOfDir(d, listing, i + 1)

\* the loop of scan_category over the listing of the category directory
RECURSIVE ItemsOfCategory(_, _, _)
ItemsOfCategory(category_name, listing, i) ==
    IF i > Len(listing.items) THEN <<>>
    ELSE LET d == listing.items[i] IN
         (IF DirOf(d).category = category_name
          THEN ItemsOfDir(d, listing, 1) ELSE <<>>)
         \o ItemsOfCategory(category_name, listing, i + 1)

\* scan_category, had it not returned None for a category with no items and
\* no index
scan_category_KeepsEmpty(category_name, listing) ==
    <<[name |-> category_name,
       url |-> category_name,
       items |-> SortItems(ItemsOfCategory(category_name, listing, 1)),
       description |-> IndexDescription(category_name)]>>

\* Option<Category> as a sequence: <<category>> for Some(category), <<>> for
\* the None of a category with no items and no index
scan_category(category_name, listing) ==
    LET items == ItemsOfCategory(category_name, listing, 1) IN
    IF items = <<>> /\ ~HasIndex(category_name) THEN <<>>
    ELSE <<[name |-> category_name,
            url |-> category_name,
            items |-> SortItems(items),
            description |-> IndexDescription(category_name)]>>

\* CategoryLess, had the comparator been b.name.cmp(&a.name)
CategoryLess_Descending(a, b) == StrCmp(b.name, a.name) = "lt"

CategoryLess(a, b) == StrCmp(a.name, b.name) = "lt"

RECURSIVE InsertCategory(_, _)
InsertCategory(x, sorted) ==
    IF sorted = <<>> THEN <<x>>
    ELSE IF CategoryLess(x, Head(sorted)) THEN <<x>> \o sorted
    ELSE <<Head(sorted)>> \o InsertCategory(x, Tail(sorted))

RECURSIVE SortCategoriesFrom(_, _)
SortCategoriesFrom(seq, i) ==
    IF i = 0 THEN <<>> ELSE InsertCategory(seq[i], SortCategoriesFrom(seq, i - 1))

RECURSIVE ScanCategoriesFrom(_, _)
ScanCategoriesFrom(listing, i) ==
    IF i > Len(listing.cats) THEN <<>>
    ELSE LET category_name == listing.cats[i]
             category == scan_category(category_name, listing)
         IN  (IF StartsWithDot(category_name) THEN <<>> ELSE category)
             \o ScanCategoriesFrom(listing, i + 1)

\* Scanner::scan: the SiteContent for one answer of the file system
scan(listing) ==
    LET categories == ScanCategoriesFrom(listing, 1) IN
    [categories |-> SortCategoriesFrom(categories, Len(categories))]

(***************************************************************************)
(* The scan when a source cannot be read or parsed.  A Result is a record: *)
(* ok with the value, or not ok with the error.                            *)
(***************************************************************************)
Ok(v) == [ok |-> TRUE, value |-> v]

Err(e) == [ok |-> FALSE, value |-> e]

NoFault == [kind |-> "none", path |-> ""]

\* std::fs::read_to_string and std::fs::read of the file at path
read_source(fault, path) ==
    IF fault.kind = "read" /\ fault.path = path THEN Err("IoError") ELSE Ok(path)

\* parse_markdown of the text of the file at path
parse_source(fault, path) ==
    IF fault.kind = "parse" /\ fault.path = path THEN Err("ParseError") ELSE Ok(path)

IndexPath(category_name) == category_name \o "/index.md"

DocPath(d, doc) == d \o "/" \o doc.stem \o ".md"

FilePath(d, e) == d \o "/attachment/" \o e.name

\* scan_attachments, line 281: `?` returns the error of the first file
\* that is not skipped and cannot be read
scan_attachments_result(d, entries, fault) ==
    LET failed == {i \in DOMAIN entries :
                      /\ ~entries[i].is_dir
                      /\ ~StartsWithDot(entries[i].name)
                      /\ ~read_source(fault, FilePath(d, entries[i])).ok}
    IN  IF failed # {} THEN Err("IoError")
        ELSE Ok(scan_attachments(DirOf(d).dir_name, entries))

\* scan_item, lines 190-194: three `?`
scan_item_result(doc, d, listing, fault) ==
    IF ~read_source(fault, DocPath(d, doc)).ok THEN Err("IoError")
    ELSE IF ~parse_source(fault, DocPath(d, doc)).ok THEN Err("ParseError")
    ELSE LET attachments == scan_attachments_result(d, listing.files[d], fault) IN
         IF ~attachments.ok THEN attachments
         ELSE Ok(scan_item(doc, DirOf(d).category, DirOf(d).dir_name, listing.files[d]))

\* the results of scan_item for the markdown files the loops of
\* scan_category come to
ItemResults(category_name, listing, fault) ==
    {scan_item_result(doc, d, listing, fault) :
        <<d, doc>> \in {<<d, doc>> \in UNION {{d} \X DirOf(d).docs :
                                                d \in DOMAIN listing.docs} :
                            DirOf(d).category = category_name}}

\* scan_category: line 110 returns the error of reading index.md, line 111
\* takes the description only `if let Ok(parsed)`, line 153 returns the
\* error of scan_item
scan_category_result(category_name, listing, fault) ==
    IF HasIndex(category_name) /\ ~read_source(fault, IndexPath(category_name)).ok
    THEN Err("IoError")
    ELSE LET description ==
                 IF HasIndex(category_name)
                    /\ parse_source(fault, IndexPath(category_name)).ok
                 THEN IndexDescription(category_name) ELSE None
             failed == {r \in ItemResults(category_name, listing, fault) : ~r.ok}
             category == scan_category(category_name, listing)
         IN  IF failed # {} THEN CHOOSE r \in failed : TRUE
             ELSE IF category = <<>> THEN Ok(<<>>)
             ELSE Ok(<<[category[1] EXCEPT !.description = description]>>)

\* Scanner::scan: line 88 returns the error of scan_category
scan_result(listing, fault) ==
    LET visited == {listing.cats[i] : i \in DOMAIN listing.cats}
        results == [c \in {c \in visited : ~StartsWithDot(c)} |->
                       scan_category_result(c, listing, fault)]
        failed == {c \in DOMAIN results : ~results[c].ok}
        categories == scan(listing).categories
    IN  IF failed # {} THEN results[CHOOSE c \in failed : TRUE]
        ELSE Ok([categories |->
                    [i \in DOMAIN categories |-> results[categories[i].name].value[1]]])

(***************************************************************************)
(* Link rewriting (content/markdown.rs).                                   *)
(***************************************************************************)
\* the comparator of sorted_attachments.sort_by: longer original name first
PairLess(a, b) == Len(b[1]) < Len(a[1])

RECURSIVE InsertPair(_, _)
InsertPair(x, sorted) ==
    IF sorted = <<>> THEN <<x>>
    ELSE IF PairLess(x, Head(sorted)) THEN <<x>> \o sorted
    ELSE <<Head(sorted)>> \o InsertPair(x, Tail(sorted))

RECURSIVE SortPairsFrom(_, _)
SortPairsFrom(seq, i) ==
    IF i = 0 THEN <<>> ELSE InsertPair(seq[i], SortPairsFrom(seq, i - 1))

\* the two patterns of one pair, "./attachment/<o>" then "attachment/<o>"
ReplacePair(html, original_name, new_name) ==
    Replace(Replace(html, "./attachment/" \o original_name, "attachment/" \o new_name),
            "attachment/" \o original_name, "attachment/" \o new_name)

RECURSIVE ReplacePairsFrom(_, _, _)
ReplacePairsFrom(html, sorted_attachments, i) ==
    IF i > Len(sorted_attachments) THEN html
    ELSE ReplacePairsFrom(
             ReplacePair(html, sorted_attachments[i][1], sorted_attachments[i][2]),
             sorted_attachments, i + 1)

replace_attachment_links(html, attachment_map) ==
    ReplacePairsFrom(html, SortPairsFrom(attachment_map, Len(attachment_map)), 1)

(***************************************************************************)
(* Renderer (content/templates.rs): what each template shows of its input. *)
(***************************************************************************)
SiteTitle == "My Collections"

Shown(opt) == IF opt = None THEN "" ELSE opt

RECURSIVE IndexCards(_, _)
IndexCards(categories, i) ==
    IF i > Len(categories) THEN ""
    ELSE "<a href=\"/" \o categories[i].url \o "\">" \o categories[i].name \o "</a>"
         \o Shown(categories[i].description)
         \o ToString(Len(categories[i].items))
         \o IndexCards(categories, i + 1)

render_index(site_content) == SiteTitle \o IndexCards(site_content.categories, 1)

RECURSIVE PostList(_, _)
PostList(items, i) ==
    IF i > Len(items) THEN ""
    ELSE "<a href=\"/" \o items[i].url \o "\">" \o items[i].title \o "</a>"
         \o Shown(items[i].date)
         \o PostList(items, i + 1)

render_category(category) ==
    "<h1>" \o category.name \o "</h1>" \o Shown(category.description)
    \o PostList(category.items, 1)

render_item(item) ==
    "<h1>" \o item.title \o "</h1>" \o Shown(item.date) \o item.html_content

(***************************************************************************)
(* Compiler::compile, the part that builds the records                     *)
(* (content/compiler.rs lines 40-116).                                     *)
(***************************************************************************)
IndexPage(site_content, now) ==
    [id |-> "index", slug |-> "index", page_type |-> "index",
     title |-> SiteTitle, content |-> render_index(site_content),
     category |-> None, updated_at |-> now]

CategoryPage(category, now) ==
    [id |-> "category-" \o category.url, slug |-> category.url,
     page_type |-> "category", title |-> category.name,
     content |-> render_category(category),
     category |-> None, updated_at |-> now]

attachment_map(item) ==
    [k \in DOMAIN item.attachments |->
        <<item.attachments[k].original_name, item.attachments[k].new_name>>]

\* ItemPage, had the rendered HTML been stored as it is
ItemPage_RawHtml(item, now) ==
    [id |-> "item-" \o item.url, slug |-> item.url,
     page_type |-> "item", title |-> item.title,
     content |-> render_item(item),
     category |-> item.category, updated_at |-> now]

ItemPage(item, now) ==
    [id |-> "item-" \o item.url, slug |-> item.url,
     page_type |-> "item", title |-> item.title,
     content |-> replace_attachment_links(render_item(item), attachment_map(item)),
     category |-> item.category, updated_at |-> now]

stored_attachment(item, attachment, now) ==
    [id |-> "attachment-" \o attachment.new_name,
     slug |-> item.url,
     filename |-> attachment.new_name,
     original_name |-> attachment.original_name,
     mime_type |-> attachment.mime_type,
     file_data |-> attachment.file_data,
     file_size |-> attachment.file_size,
     updated_at |-> now]

RECURSIVE ItemPagesFrom(_, _, _)
ItemPagesFrom(items, i, now) ==
    IF i > Len(items) THEN <<>>
    ELSE <<ItemPage(items[i], now)>> \o ItemPagesFrom(items, i + 1, now)

RECURSIVE CategoryPagesFrom(_, _, _)
CategoryPagesFrom(categories, i, now) ==
    IF i > Len(categories) THEN <<>>
    ELSE <<CategoryPage(categories[i], now)>>
         \o ItemPagesFrom(categories[i].items, 1, now)
         \o CategoryPagesFrom(categories, i + 1, now)

\* pages_to_save when every render succeeds
PagesToSave(site_content, now) ==
    <<IndexPage(site_content, now)>> \o CategoryPagesFrom(site_content.categories, 1, now)

RECURSIVE ItemAttachmentsFrom(_, _, _)
ItemAttachmentsFrom(item, k, now) ==
    IF k > Len(item.attachments) THEN <<>>
    ELSE <<stored_attachment(item, item.attachments[k], now)>>
         \o ItemAttachmentsFrom(item, k + 1, now)

RECURSIVE AttachmentsOfItemsFrom(_, _, _)
AttachmentsOfItemsFrom(items, i, now) ==
    IF i > Len(items) THEN <<>>
    ELSE ItemAttachmentsFrom(items[i], 1, now) \o AttachmentsOfItemsFrom(items, i + 1, now)

RECURSIVE AttachmentsOfCategoriesFrom(_, _, _)
AttachmentsOfCategoriesFrom(categories, i, now) ==
    IF i > Len(categories) THEN <<>>
    ELSE AttachmentsOfItemsFrom(categories[i].items, 1, now)
         \o AttachmentsOfCategoriesFrom(categories, i + 1, now)

\* attachments_to_save when every render succeeds
AttachmentsToSave(site_content, now) ==
    AttachmentsOfCategoriesFrom(site_content.categories, 1, now)

(***************************************************************************)
(* Storage engine (database/storage.rs).  A relation is the set of its     *)
(* rows.  A timestamp is the reading of Utc::now() at one place of one     *)
(* compile() invocation; readings at different places or in different      *)
(* invocations are different values.  0 stands for the empty               *)
(* last_compiled of a new database.                                        *)
(***************************************************************************)
\* INSERT OR REPLACE INTO pages: id is the primary key and slug is UNIQUE,
\* so the rows that conflict on either are deleted before the insert
UpsertPage(rel, page, now) ==
    {r \in rel : r.id # page.id /\ r.slug # page.slug}
        \cup {[page EXCEPT !.updated_at = now]}

\* UpsertAttachment, had the statement been INSERT OR IGNORE
UpsertAttachment_InsertOrIgnore(rel, attachment, now) ==
    IF \E r \in rel : r.id = attachment.id THEN rel
    ELSE rel \cup {[attachment EXCEPT !.updated_at = now]}

\* INSERT OR REPLACE INTO attachments: id is the only key of the table
UpsertAttachment(rel, attachment, now) ==
    {r \in rel : r.id # attachment.id}
        \cup {[attachment EXCEPT !.updated_at = now]}

\* save_pages_batch on a connection nobody interleaves with: the upserts of
\* the loop, from record i on
RECURSIVE save_pages_batch_from(_, _, _, _)
save_pages_batch_from(rel, batch, i, now) ==
    IF i > Len(batch) THEN rel
    ELSE save_pages_batch_from(UpsertPage(rel, batch[i], now), batch, i + 1, now)

save_pages_batch(rel, batch, now) == save_pages_batch_from(rel, batch, 1, now)

RECURSIVE save_attachments_batch_from(_, _, _, _)
save_attachments_batch_from(rel, batch, i, now) ==
    IF i > Len(batch) THEN rel
    ELSE save_attachments_batch_from(UpsertAttachment(rel, batch[i], now), batch, i + 1, now)

save_attachments_batch(rel, batch, now) == save_attachments_batch_from(rel, batch, 1, now)

\* SELECT ... FROM pages WHERE slug = ?
get_page(rel, slug) == {r \in rel : r.slug = slug}

\* SELECT ... FROM attachments WHERE filename = ?
get_attachment(rel, filename) == {r \in rel : r.filename = filename}

\* SELECT ... FROM attachments WHERE slug = ?
get_attachments_by_slug(rel, slug) == {r \in rel : r.slug = slug}

(***************************************************************************)
(* The read path (web/routes.rs): a request opens its own connection and   *)
(* reads the committed rows.                                               *)
(***************************************************************************)
\* serve_page, line 46: the rows storage.get_page(slug) selects
serve_page(rows, slug) == get_page(rows, slug)

\* serve_attachment, line 79: the rows storage.get_attachment(filename) selects
serve_attachment(rows, filename) == get_attachment(rows, filename)

(***************************************************************************)
(* State.                                                                  *)
(***************************************************************************)
\* the callers of compile(): the startup routine of main.rs and a request
\* to the recompile route; each builds its own Compiler and connection.
\* They overlap when a process starts on the database of a running server,
\* and as two requests do that different server workers handle.
Triggers == {"startup", "recompile"}

NoOne == "<nobody>"

VARIABLES
    fs,                   \* the content tree: the item directories on disk
    edits,                \* number of edits of the content tree so far
    pages,                \* committed rows of table pages
    attachments,          \* committed rows of table attachments
    last_compiled,        \* site_metadata value of key last_compiled
    compiles,             \* number of compile() invocations so far
    run,                  \* which invocation each trigger's compile() is
    pc,                   \* where each trigger's compile() stands
    site_content,         \* compile()'s local site_content
    pages_to_save,        \* compile()'s local pages_to_save
    attachments_to_save,  \* compile()'s local attachments_to_save
    src,                  \* the tree the trigger's scan has read
    result,               \* outcome of the trigger's latest compile()
    lock,                 \* connection holding SQLite's write lock
    tx,                   \* the rows as the open write transaction sees them
    txi,                  \* next record of the batch each trigger executes
    tx_now,               \* the timestamp `now` of the running batch
    before,               \* storage as it was when the trigger's compile() began
    solo,                 \* since the trigger's compile() began, and when it
                          \* began, no other trigger was inside compile()
    saved_page,           \* per slug, the page record saved last under it
    saved_attachment,     \* per filename, the attachment record saved last
    saves,                \* number of direct calls of the save functions so far
    call,                 \* a call of a function examined on its own, or the
                          \* latest request the server answered: the
                          \* function, its arguments and what it returns
    server                \* whether the process of main.rs runs its HTTP server

vars == <<fs, edits, pages, attachments, last_compiled, compiles, run, pc,
          site_content, pages_to_save, attachments_to_save, src, result, lock, tx, txi,
          tx_now, before, solo, saved_page, saved_attachment, saves, call, server>>

storage == <<pages, attachments, last_compiled>>
locals == <<site_content, pages_to_save, attachments_to_save, src>>
txvars == <<lock, tx, txi, tx_now>>
history == <<saved_page, saved_attachment, saves, call, server>>

\* no function is examined on its own
NoCall == [fn |-> "none", arg |-> <<>>, result |-> <<>>, done |-> TRUE]

\* the result of a call that has not returned
Pending == "<pending>"

\* Utc::now().to_rfc3339() at compiler.rs line 49 (place 1), storage.rs
\* line 570 (place 2), line 602 (place 3) and line 433 (place 4)
Now(c, place) == run[c] * 10 + place

Snapshot == [pages |-> pages, attachments |-> attachments,
             last_compiled |-> last_compiled]

InitCompile ==
    /\ edits = 0
    /\ pages = {}
    /\ attachments = {}
    /\ last_compiled = 0
    /\ compiles = 0
    /\ run = [c \in Triggers |-> 0]
    /\ pc = [c \in Triggers |-> "idle"]
    /\ site_content = [c \in Triggers |-> [categories |-> <<>>]]
    /\ pages_to_save = [c \in Triggers |-> <<>>]
    /\ attachments_to_save = [c \in Triggers |-> <<>>]
    /\ src = [c \in Triggers |-> {}]
    /\ result = [c \in Triggers |-> "none"]
    /\ lock = NoOne
    /\ tx = {}
    /\ txi = [c \in Triggers |-> 0]
    /\ tx_now = [c \in Triggers |-> 0]
    /\ before = [c \in Triggers |-> Snapshot]
    /\ solo = [c \in Triggers |-> TRUE]
    /\ saved_page = <<>>
    /\ saved_attachment = <<>>
    /\ saves = 0
    /\ server = "down"

Init == fs \in SUBSET DirIds /\ InitCompile /\ call = NoCall

(***************************************************************************)
(* The author edits the content tree: item directories appear or go.       *)
(***************************************************************************)
EditContent ==
    /\ edits < MaxEdits
    /\ fs' \in (SUBSET DirIds) \ {fs}
    /\ edits' = edits + 1
    /\ UNCHANGED <<history, storage, compiles, run, pc, locals, result, txvars, before, solo>>

(***************************************************************************)
(* Compiler::compile (content/compiler.rs lines 33-141), one action per    *)
(* step that other connections can interleave with.                        *)
(***************************************************************************)
\* a caller enters compile(): bookkeeping shared by ScanOk and ScanFail
Enter(c) ==
    /\ pc[c] = "idle"
    /\ compiles < MaxCompiles
    /\ compiles' = compiles + 1
    /\ run' = [run EXCEPT ![c] = compiles + 1]
    /\ before' = [before EXCEPT ![c] = Snapshot]
    /\ solo' = [d \in Triggers |->
                  d = c /\ \A e \in Triggers \ {c} : pc[e] = "idle"]

\* line 37, scanner.scan() returns Ok; the listing is the answer the file
\* system gives to the scan's read_dir calls
ScanOk(c) ==
    /\ Enter(c)
    /\ \E listing \in Listings(fs) :
          site_content' = [site_content EXCEPT ![c] = scan(listing)]
    /\ src' = [src EXCEPT ![c] = fs]
    /\ pc' = [pc EXCEPT ![c] = "render"]
    /\ result' = [result EXCEPT ![c] = "running"]
    /\ UNCHANGED <<history, fs, edits, storage, pages_to_save, attachments_to_save, txvars>>

\* line 37, scanner.scan() returns Err and `?` returns it
ScanFail(c) ==
    /\ Enter(c)
    /\ result' = [result EXCEPT ![c] = "scan_error"]
    /\ UNCHANGED <<history, fs, edits, storage, pc, locals, txvars>>

\* lines 40-116, every render returns Ok
RenderOk(c) ==
    /\ pc[c] = "render"
    /\ pages_to_save' = [pages_to_save EXCEPT ![c] = PagesToSave(site_content[c], Now(c, 1))]
    /\ attachments_to_save' =
           [attachments_to_save EXCEPT ![c] = AttachmentsToSave(site_content[c], Now(c, 1))]
    /\ pc' = [pc EXCEPT ![c] = "save_pages"]
    /\ UNCHANGED <<history, fs, edits, storage, compiles, run, site_content, src, result, txvars,
                   before, solo>>

\* RenderFail, had compile() saved each page as soon as it was rendered
RenderFail_SavesEachPage(c) ==
    /\ pc[c] = "render"
    /\ \E k \in 1..Len(PagesToSave(site_content[c], Now(c, 1))) :
          /\ pages' = save_pages_batch(pages,
                           SubSeq(PagesToSave(site_content[c], Now(c, 1)), 1, k - 1),
                           Now(c, 2))
          /\ pc' = [pc EXCEPT ![c] = "idle"]
          /\ result' = [result EXCEPT ![c] = "render_error"]
          /\ UNCHANGED <<history, fs, edits, attachments, last_compiled, compiles, run, locals,
                         txvars, before, solo>>

\* lines 46, 63, 85: the k-th render returns Err and `?` returns it; the
\* records built from the renders before it are dropped with the locals
RenderFail(c) ==
    /\ pc[c] = "render"
    /\ \E k \in 1..Len(PagesToSave(site_content[c], Now(c, 1))) :
          /\ pc' = [pc EXCEPT ![c] = "idle"]
          /\ result' = [result EXCEPT ![c] = "render_error"]
          /\ UNCHANGED <<history, fs, edits, storage, compiles, run, locals, txvars, before, solo>>

(***************************************************************************)
(* StorageDB::save_pages_batch (database/storage.rs lines 563-591) as      *)
(* compile() line 119 calls it.  The transaction is deferred: its first    *)
(* INSERT takes SQLite's write lock, its COMMIT publishes the rows and     *)
(* releases the lock; dropping it on an error rolls it back.               *)
(***************************************************************************)
\* lines 564-570: conn.transaction(), tx.prepare() and the batch's `now`
BeginPages(c) ==
    /\ pc[c] = "save_pages"
    /\ pc' = [pc EXCEPT ![c] = "tx_pages"]
    /\ txi' = [txi EXCEPT ![c] = 1]
    /\ tx_now' = [tx_now EXCEPT ![c] = Now(c, 2)]
    /\ UNCHANGED <<history, fs, edits, storage, compiles, run, locals, result, lock, tx, before, solo>>

\* ExecPage, had each INSERT been committed on its own
ExecPage_Autocommit(c) ==
    /\ pc[c] = "tx_pages"
    /\ txi[c] <= Len(pages_to_save[c])
    /\ lock \in {NoOne, c}
    /\ lock' = c
    /\ pages' = UpsertPage(pages, pages_to_save[c][txi[c]], tx_now[c])
    /\ tx' = pages'
    /\ txi' = [txi EXCEPT ![c] = @ + 1]
    /\ UNCHANGED <<history, fs, edits, attachments, last_compiled, compiles, run, pc, locals,
                   result, tx_now, before, solo>>

\* lines 572-587: stmt.execute() of the next page returns Ok
ExecPage(c) ==
    /\ pc[c] = "tx_pages"
    /\ txi[c] <= Len(pages_to_save[c])
    /\ lock \in {NoOne, c}
    /\ lock' = c
    /\ tx' = UpsertPage(IF lock = c THEN tx ELSE pages,
                        pages_to_save[c][txi[c]], tx_now[c])
    /\ txi' = [txi EXCEPT ![c] = @ + 1]
    /\ UNCHANGED <<history, fs, edits, storage, compiles, run, pc, locals, result, tx_now,
                   before, solo>>

\* CommitPages, had line 123 tested is_empty() the wrong way round
CommitPages_SkipsAttachments(c) ==
    /\ pc[c] = "tx_pages"
    /\ txi[c] > Len(pages_to_save[c])
    /\ lock = c
    /\ pages' = tx
    /\ lock' = NoOne
    /\ tx' = {}
    /\ pc' = [pc EXCEPT ![c] = IF attachments_to_save[c] = <<>>
                                THEN "save_attachments" ELSE "update_time"]
    /\ UNCHANGED <<history, fs, edits, attachments, last_compiled, compiles, run, locals,
                   result, txi, tx_now, before, solo>>

\* line 589: tx.commit() returns Ok; compile() goes on to line 123
CommitPages(c) ==
    /\ pc[c] = "tx_pages"
    /\ txi[c] > Len(pages_to_save[c])
    /\ lock = c
    /\ pages' = tx
    /\ lock' = NoOne
    /\ tx' = {}
    /\ pc' = [pc EXCEPT ![c] = IF attachments_to_save[c] # <<>>
                                THEN "save_attachments" ELSE "update_time"]
    /\ UNCHANGED <<history, fs, edits, attachments, last_compiled, compiles, run, locals,
                   result, txi, tx_now, before, solo>>

\* a `?` of lines 564-589 returns Err (the database is busy, full or
\* unwritable): the transaction is dropped, which rolls it back, and
\* compile() line 119 returns the error
PagesFail(c) ==
    /\ pc[c] \in {"save_pages", "tx_pages"}
    /\ lock' = IF lock = c THEN NoOne ELSE lock
    /\ tx' = IF lock = c THEN {} ELSE tx
    /\ pc' = [pc EXCEPT ![c] = "idle"]
    /\ result' = [result EXCEPT ![c] = "pages_error"]
    /\ UNCHANGED <<history, fs, edits, storage, compiles, run, locals, txi, tx_now, before, solo>>

(***************************************************************************)
(* StorageDB::save_attachments_batch (lines 594-619) as compile() line 124 *)
(* calls it when attachments_to_save is not empty.                         *)
(***************************************************************************)
BeginAttachments(c) ==
    /\ pc[c] = "save_attachments"
    /\ pc' = [pc EXCEPT ![c] = "tx_attachments"]
    /\ txi' = [txi EXCEPT ![c] = 1]
    /\ tx_now' = [tx_now EXCEPT ![c] = Now(c, 3)]
    /\ UNCHANGED <<history, fs, edits, storage, compiles, run, locals, result, lock, tx, before, solo>>

\* ExecAttachment, had each INSERT been committed on its own
ExecAttachment_Autocommit(c) ==
    /\ pc[c] = "tx_attachments"
    /\ txi[c] <= Len(attachments_to_save[c])
    /\ lock \in {NoOne, c}
    /\ lock' = c
    /\ attachments' = UpsertAttachment(attachments, attachments_to_save[c][txi[c]],
                                        tx_now[c])
    /\ tx' = attachments'
    /\ txi' = [txi EXCEPT ![c] = @ + 1]
    /\ UNCHANGED <<history, fs, edits, pages, last_compiled, compiles, run, pc, locals,
                   result, tx_now, before, solo>>

\* lines 604-615: stmt.execute() of the next attachment returns Ok
ExecAttachment(c) ==
    /\ pc[c] = "tx_attachments"
    /\ txi[c] <= Len(attachments_to_save[c])
    /\ lock \in {NoOne, c}
    /\ lock' = c
    /\ tx' = UpsertAttachment(IF lock = c THEN tx ELSE attachments,
                              attachments_to_save[c][txi[c]], tx_now[c])
    /\ txi' = [txi EXCEPT ![c] = @ + 1]
    /\ UNCHANGED <<history, fs, edits, storage, compiles, run, pc, locals, result, tx_now,
                   before, solo>>

CommitAttachments(c) ==
    /\ pc[c] = "tx_attachments"
    /\ txi[c] > Len(attachments_to_save[c])
    /\ lock = c
    /\ attachments' = tx
    /\ lock' = NoOne
    /\ tx' = {}
    /\ pc' = [pc EXCEPT ![c] = "update_time"]
    /\ UNCHANGED <<history, fs, edits, pages, last_compiled, compiles, run, locals,
                   result, txi, tx_now, before, solo>>

\* AttachmentsFail, had the error path kept what the transaction had done
AttachmentsFail_NoRollback(c) ==
    /\ pc[c] \in {"save_attachments", "tx_attachments"}
    /\ attachments' = IF lock = c THEN tx ELSE attachments
    /\ lock' = IF lock = c THEN NoOne ELSE lock
    /\ tx' = IF lock = c THEN {} ELSE tx
    /\ pc' = [pc EXCEPT ![c] = "idle"]
    /\ result' = [result EXCEPT ![c] = "attachments_error"]
    /\ UNCHANGED <<history, fs, edits, pages, last_compiled, compiles, run, locals, txi, tx_now,
                   before, solo>>

\* a `?` of lines 595-617 returns Err: rollback, and compile() line 124
\* returns the error
AttachmentsFail(c) ==
    /\ pc[c] \in {"save_attachments", "tx_attachments"}
    /\ lock' = IF lock = c THEN NoOne ELSE lock
    /\ tx' = IF lock = c THEN {} ELSE tx
    /\ pc' = [pc EXCEPT ![c] = "idle"]
    /\ result' = [result EXCEPT ![c] = "attachments_error"]
    /\ UNCHANGED <<history, fs, edits, storage, compiles, run, locals, txi, tx_now, before, solo>>

(***************************************************************************)
(* StorageDB::update_compile_time (lines 432-435) as compile() line 129    *)
(* calls it: one INSERT OR REPLACE in autocommit mode.                     *)
(***************************************************************************)
UpdateCompileTime(c) ==
    /\ pc[c] = "update_time"
    /\ lock = NoOne
    /\ last_compiled' = Now(c, 4)
    /\ pc' = [pc EXCEPT ![c] = "idle"]
    /\ result' = [result EXCEPT ![c] = "ok"]
    /\ UNCHANGED <<history, fs, edits, pages, attachments, compiles, run, locals, txvars, before, solo>>

UpdateCompileTimeFail(c) ==
    /\ pc[c] = "update_time"
    /\ pc' = [pc EXCEPT ![c] = "idle"]
    /\ result' = [result EXCEPT ![c] = "metadata_error"]
    /\ UNCHANGED <<history, fs, edits, storage, compiles, run, locals, txvars, before, solo>>

Next ==
    \/ EditContent
    \/ \E c \in Triggers :
          \/ ScanOk(c)
          \/ ScanFail(c)
          \/ RenderOk(c)
          \/ RenderFail(c)
          \/ BeginPages(c)
          \/ ExecPage(c)
          \/ CommitPages(c)
          \/ PagesFail(c)
          \/ BeginAttachments(c)
          \/ ExecAttachment(c)
          \/ CommitAttachments(c)
          \/ AttachmentsFail(c)
          \/ UpdateCompileTime(c)
          \/ UpdateCompileTimeFail(c)

Spec == Init /\ [][Next]_vars

(***************************************************************************)
(* The process of main.rs (lines 65-101): the startup compile(), then the  *)
(* HTTP server, whatever compile() returned, then requests.  The store the *)
(* process finds is what an earlier compile() left, which the trigger      *)
(* "recompile" runs here before the process starts.                        *)
(***************************************************************************)
\* the slugs and filenames that requests ask for
RequestSlugs == {"index", "a", "a-x"}

RequestFiles == {"x_1.jpg"}

\* c may take a step of compile(): the earlier compile() runs to its end
\* before the process starts, and the startup compile() before the server
InTurn(c) ==
    /\ server = "down"
    /\ \A d \in Triggers \ {c} : pc[d] = "idle"
    /\ c = "recompile" => run["startup"] = 0

\* main.rs lines 88-101, reached after either arm of the match on compile()
StartServer ==
    /\ server = "down"
    /\ pc["startup"] = "idle" /\ result["startup"] \notin {"none", "running"}
    /\ server' = "up"
    /\ UNCHANGED <<fs, edits, storage, compiles, run, pc, locals, result, txvars,
                   before, solo, saved_page, saved_attachment, saves, call>>

\* routes.rs serve_page, lines 35-61
ServePage ==
    /\ server = "up"
    /\ \E slug \in RequestSlugs :
          call' = [fn |-> "serve_page", arg |-> slug,
                   result |-> serve_page(pages, slug), done |-> TRUE]
    /\ UNCHANGED <<fs, edits, storage, compiles, run, pc, locals, result, txvars,
                   before, solo, saved_page, saved_attachment, saves, server>>

\* routes.rs serve_attachment
ServeAttachment ==
    /\ server = "up"
    /\ \E filename \in RequestFiles :
          call' = [fn |-> "serve_attachment", arg |-> filename,
                   result |-> serve_attachment(attachments, filename), done |-> TRUE]
    /\ UNCHANGED <<fs, edits, storage, compiles, run, pc, locals, result, txvars,
                   before, solo, saved_page, saved_attachment, saves, server>>

NextStartup ==
    \/ server = "down" /\ EditContent
    \/ \E c \in Triggers :
          \/ InTurn(c) /\ ScanOk(c)
          \/ InTurn(c) /\ ScanFail(c)
          \/ InTurn(c) /\ RenderOk(c)
          \/ InTurn(c) /\ RenderFail(c)
          \/ InTurn(c) /\ BeginPages(c)
          \/ InTurn(c) /\ ExecPage(c)
          \/ InTurn(c) /\ CommitPages(c)
          \/ InTurn(c) /\ PagesFail(c)
          \/ InTurn(c) /\ BeginAttachments(c)
          \/ InTurn(c) /\ ExecAttachment(c)
          \/ InTurn(c) /\ CommitAttachments(c)
          \/ InTurn(c) /\ AttachmentsFail(c)
          \/ InTurn(c) /\ UpdateCompileTime(c)
          \/ InTurn(c) /\ UpdateCompileTimeFail(c)
    \/ StartServer
    \/ ServePage
    \/ ServeAttachment

SpecStartup == Init /\ [][NextStartup]_vars

(***************************************************************************)
(* The storage engine called directly (database/storage.rs): the callers   *)
(* outside compile(), such as the admin routes, pass records of their own  *)
(* making, with any id.                                                    *)
(***************************************************************************)
Ids == {"1", "2"}
Keys == {"s", "t"}
Payloads == {"v1", "v2"}

PageRecords ==
    {[id |-> i, slug |-> k, page_type |-> "item", title |-> v, content |-> v,
      category |-> None, updated_at |-> 0] : i \in Ids, k \in Keys, v \in Payloads}

AttachmentRecords ==
    {[id |-> i, slug |-> "s", filename |-> k, original_name |-> v,
      mime_type |-> "image/png", file_data |-> v, file_size |-> 1,
      updated_at |-> 0] : i \in Ids, k \in Keys, v \in Payloads}

Batches(records) == {<<r>> : r \in records} \cup {<<r, q>> : r \in records, q \in records}

\* Utc::now().to_rfc3339() of a save function
StoreNow == saves + 1

compile_state == <<fs, edits, last_compiled, compiles, run, pc, locals, result, txvars,
                   before, solo, server>>

InitStore == Init /\ fs = {}

\* the record saved last under each key once the batch is through
RECURSIVE RememberPages(_, _, _)
RememberPages(saved, batch, i) ==
    IF i > Len(batch) THEN saved
    ELSE RememberPages((batch[i].slug :> batch[i]) @@ saved, batch, i + 1)

RECURSIVE RememberAttachments(_, _, _)
RememberAttachments(saved, batch, i) ==
    IF i > Len(batch) THEN saved
    ELSE RememberAttachments((batch[i].filename :> batch[i]) @@ saved, batch, i + 1)

\* StorageDB::save_page, lines 130-145
SavePage ==
    /\ saves < MaxSaves
    /\ \E page \in PageRecords :
          /\ pages' = UpsertPage(pages, page, StoreNow)
          /\ saved_page' = (page.slug :> page) @@ saved_page
    /\ saves' = saves + 1
    /\ UNCHANGED <<compile_state, call, attachments, saved_attachment>>

\* StorageDB::save_pages_batch, lines 563-591, returning Ok
SavePagesBatch ==
    /\ saves < MaxSaves
    /\ \E batch \in Batches(PageRecords) :
          /\ pages' = save_pages_batch(pages, batch, StoreNow)
          /\ saved_page' = RememberPages(saved_page, batch, 1)
    /\ saves' = saves + 1
    /\ UNCHANGED <<compile_state, call, attachments, saved_attachment>>

\* StorageDB::save_pages_batch returning Err: the transaction is rolled back
SavePagesBatchFail ==
    /\ saves < MaxSaves
    /\ saves' = saves + 1
    /\ UNCHANGED <<compile_state, call, pages, attachments, saved_page, saved_attachment>>

\* StorageDB::save_attachment, lines 284-304
SaveAttachment ==
    /\ saves < MaxSaves
    /\ \E attachment \in AttachmentRecords :
          /\ attachments' = UpsertAttachment(attachments, attachment, StoreNow)
          /\ saved_attachment' = (attachment.filename :> attachment) @@ saved_attachment
    /\ saves' = saves + 1
    /\ UNCHANGED <<compile_state, call, pages, saved_page>>

\* StorageDB::save_attachments_batch, lines 594-619, returning Ok
SaveAttachmentsBatch ==
    /\ saves < MaxSaves
    /\ \E batch \in Batches(AttachmentRecords) :
          /\ attachments' = save_attachments_batch(attachments, batch, StoreNow)
          /\ saved_attachment' = RememberAttachments(saved_attachment, batch, 1)
    /\ saves' = saves + 1
    /\ UNCHANGED <<compile_state, call, pages, saved_page>>

NextStore ==
    \/ SavePage
    \/ SavePagesBatch
    \/ SavePagesBatchFail
    \/ SaveAttachment
    \/ SaveAttachmentsBatch

SpecStore == InitStore /\ [][NextStore]_vars

(***************************************************************************)
(* compile() on the tree of fruit/index.md and fruit/apple/apple.md with   *)
(* attachment/pic.jpg, and an empty store.                                 *)
(***************************************************************************)
InitEndToEnd == fs = {"fruit/apple"} /\ InitCompile /\ call = NoCall

SpecEndToEnd == InitEndToEnd /\ [][Next]_vars

(***************************************************************************)
(* Scanner::scan examined on its own: the tree and the answers of the file *)
(* system are the arguments of the call.                                   *)
(***************************************************************************)
\* every variable but call
others == <<compile_state, pages, attachments, saved_page, saved_attachment, saves>>

Trees(n) == {t \in SUBSET ScanDirs : Cardinality(t) <= n}

\* the sources a scan of the tree reads, each with the ways it can fail:
\* the index documents and markdown files of the categories that are not
\* dot-prefixed, and the attachment files of their items
Faults(tree) ==
    LET dirs == {d \in tree : ~StartsWithDot(DirOf(d).category)} IN
    {[kind |-> k, path |-> IndexPath(DirOf(d).category)] :
        k \in {"read", "parse"}, d \in {d \in dirs : HasIndex(DirOf(d).category)}}
    \cup UNION {{[kind |-> k, path |-> DocPath(d, doc)] :
                    k \in {"read", "parse"}, doc \in DirOf(d).docs} : d \in dirs}
    \cup UNION {{[kind |-> "read", path |-> FilePath(d, e)] : e \in DirOf(d).files} :
                    d \in {d \in dirs : DirOf(d).docs # {}}}

\* the calls of scan on the trees of up to n item directories
ScanCalls(n) ==
    UNION {{[fn |-> "scan", arg |-> [tree |-> t, listing |-> l],
             result |-> Pending, done |-> FALSE] :
               l \in Listings(t)} : t \in Trees(n)}

ScanFaultCalls(n) ==
    UNION {{[fn |-> "scan_result",
             arg |-> [tree |-> t, listing |-> l, fault |-> f],
             result |-> Pending, done |-> FALSE] :
               l \in Listings(t), f \in Faults(t)} : t \in Trees(n)}

InitScan == fs = {} /\ InitCompile /\ call \in ScanCalls(MaxTree) \cup ScanFaultCalls(MaxFaultTree)

\* Scanner::scan returns, all sources readable
ReturnScan ==
    /\ call.fn = "scan" /\ ~call.done
    /\ call' = [call EXCEPT !.result = scan(call.arg.listing), !.done = TRUE]
    /\ UNCHANGED others

\* Scanner::scan returns, one source failing
ReturnScanResult ==
    /\ call.fn = "scan_result" /\ ~call.done
    /\ call' = [call EXCEPT !.result = scan_result(call.arg.listing, call.arg.fault),
                            !.done = TRUE]
    /\ UNCHANGED others

NextScan == ReturnScan \/ ReturnScanResult

SpecScan == InitScan /\ [][NextScan]_vars

(***************************************************************************)
(* Scanner::scan_attachments examined on its own: the argument is the      *)
(* listing of an attachment directory.                                     *)
(***************************************************************************)
\* a subdirectory of the attachment directory
Dir(name) == [name |-> name, ext |-> "", is_dir |-> TRUE, data |-> "", size |-> 0]

\* regular files, one without extension and one hidden, and a subdirectory
Entries ==
    {File("p.jpg", "jpg", "P", 1), File("s.jpg", "jpg", "S", 1),
     File("q.png", "png", "Q", 1), File("r", "", "R", 1),
     File(".h.jpg", "jpg", "H", 1), Dir("sub")}

\* the listings of the attachment directories made of up to n of the entries
EntryListings(n) ==
    UNION {Perms(S) : S \in {S \in SUBSET Entries : Cardinality(S) <= n}}

AttachmentCalls(n) ==
    {[fn |-> "scan_attachments", arg |-> [item_dir |-> "x", entries |-> l],
      result |-> Pending, done |-> FALSE] : l \in EntryListings(n)}

InitAttachments == fs = {} /\ InitCompile /\ call \in AttachmentCalls(MaxEntries)

\* Scanner::scan_attachments returns
ReturnScanAttachments ==
    /\ call.fn = "scan_attachments" /\ ~call.done
    /\ call' = [call EXCEPT
                   !.result = scan_attachments(call.arg.item_dir, call.arg.entries),
                   !.done = TRUE]
    /\ UNCHANGED others

NextAttachments == ReturnScanAttachments

SpecAttachments == InitAttachments /\ [][NextAttachments]_vars

(***************************************************************************)
(* parse_markdown (markdown.rs 80-125) examined on its own.  The metadata  *)
(* and the raw body are modelled; the HTML that pulldown_cmark makes of    *)
(* the body is not part of the record here.                                *)
(***************************************************************************)
\* the Frontmatter of a text without a frontmatter block (lines 98-109)
EmptyFrontmatter ==
    [title |-> None, date |-> None, author |-> None, tags |-> None,
     description |-> None, time |-> None, extra |-> {}]

\* frontmatter blocks that serde_yaml reads into a Frontmatter
ValidFrontmatters ==
    {"\ntitle: T\n", "\ndescription: D\n", "\nauthor: A\ntitle: T\n"}

\* frontmatter blocks that serde_yaml refuses: a flow sequence that is never
\* closed, and a scalar where tags needs a sequence
InvalidFrontmatters == {"\ntitle: [\n", "\ntags: t\n"}

\* serde_yaml::from_str::<Frontmatter>, on the blocks above
serde_yaml_from_str(frontmatter_str) ==
    CASE frontmatter_str = "\ntitle: T\n" ->
             Ok([EmptyFrontmatter EXCEPT !.title = "T"])
      [] frontmatter_str = "\ndescription: D\n" ->
             Ok([EmptyFrontmatter EXCEPT !.description = "D"])
      [] frontmatter_str = "\nauthor: A\ntitle: T\n" ->
             Ok([EmptyFrontmatter EXCEPT !.author = "A", !.title = "T"])
      [] frontmatter_str \in InvalidFrontmatters -> Err("serde_yaml::Error")

\* str::trim_start
RECURSIVE trim_start(_)
trim_start(s) ==
    IF Len(s) > 0 /\ CharAt(s, 1) \in {" ", "\n", "\t"}
    THEN trim_start(SubSeq(s, 2, Len(s)))
    ELSE s

parse_frontmatter_IgnoresYamlError(content) ==
    IF ~MatchAt(content, "---", 1) THEN Ok(<<EmptyFrontmatter, content>>)
    ELSE LET second_separator == FindFrom(content, "---", 4) IN
         IF second_separator = 0 THEN Err("No closing frontmatter separator")
         ELSE LET frontmatter_str == SubSeq(content, 4, second_separator - 1)
                  markdown_content ==
                      trim_start(SubSeq(content, second_separator + 3, Len(content)))
                  frontmatter == serde_yaml_from_str(frontmatter_str)
              IN  IF ~frontmatter.ok THEN Ok(<<EmptyFrontmatter, markdown_content>>)
                  ELSE Ok(<<frontmatter.value, markdown_content>>)

\* second_separator is a position in content here, 0 when find gives None
parse_frontmatter(content) ==
    IF ~MatchAt(content, "---", 1) THEN Ok(<<EmptyFrontmatter, content>>)
    ELSE LET second_separator == FindFrom(content, "---", 4) IN
         IF second_separator = 0 THEN Err("No closing frontmatter separator")
         ELSE LET frontmatter_str == SubSeq(content, 4, second_separator - 1)
                  markdown_content ==
                      trim_start(SubSeq(content, second_separator + 3, Len(content)))
                  frontmatter == serde_yaml_from_str(frontmatter_str)
              IN  IF ~frontmatter.ok THEN frontmatter
                  ELSE Ok(<<frontmatter.value, markdown_content>>)

parse_markdown(content) ==
    LET parsed == parse_frontmatter(content) IN
    IF ~parsed.ok THEN parsed
    ELSE Ok([frontmatter |-> parsed.value[1], raw_content |-> parsed.value[2]])

\* the texts: something before the block or nothing, the opening delimiter
\* or none, a block, the closing delimiter or less, and a body
Texts ==
    [lead : {"", " "}, open : {"---", ""},
     block : ValidFrontmatters \cup InvalidFrontmatters,
     close : {"---", "--", ""}, body : {"", "\n# T\n", "  b", "\nb"}]

TextOf(t) == t.lead \o t.open \o t.block \o t.close \o t.body

ParseCalls ==
    {[fn |-> "parse_markdown", arg |-> [parts |-> t, content |-> TextOf(t)],
      result |-> Pending, done |-> FALSE] : t \in Texts}

InitParse == fs = {} /\ InitCompile /\ call \in ParseCalls

\* parse_markdown returns
ReturnParseMarkdown ==
    /\ call.fn = "parse_markdown" /\ ~call.done
    /\ call' = [call EXCEPT !.result = parse_markdown(call.arg.content),
                            !.done = TRUE]
    /\ UNCHANGED others

NextParse == ReturnParseMarkdown

SpecParse == InitParse /\ [][NextParse]_vars

(***************************************************************************)
(* ParsedMarkdown::get_title and get_date (markdown.rs 33-77) examined on  *)
(* their own.  A body is a sequence of blocks; raw_content is the markdown *)
(* text of the blocks and Events is what pulldown_cmark::Parser gives for  *)
(* that text.                                                              *)
(***************************************************************************)
Blocks ==
    {[kind |-> "H1", text |-> "Head"], [kind |-> "H2", text |-> "Sub"],
     [kind |-> "Paragraph", text |-> "para"], [kind |-> "Html", text |-> "<hr>"]}

Bodies(n) == UNION {[1..k -> Blocks] : k \in 0..n}

\* the markdown text of a block
BlockText(b) ==
    CASE b.kind = "H1" -> "# " \o b.text
      [] b.kind = "H2" -> "## " \o b.text
      [] b.kind = "Paragraph" -> b.text
      [] b.kind = "Html" -> b.text

\* the markdown text of a body, its blocks set apart by an empty line
RECURSIVE RawContent(_, _)
RawContent(body, i) ==
    IF i > Len(body) THEN ""
    ELSE BlockText(body[i]) \o (IF i < Len(body) THEN "\n\n" ELSE "\n")
             \o RawContent(body, i + 1)

\* pulldown_cmark's events of a block: a heading and a paragraph hold a Text
\* event, a block of HTML holds an Html event
BlockEvents(b) ==
    <<[event |-> "Start", tag |-> b.kind],
      IF b.kind = "Html" THEN [event |-> "Html", text |-> b.text \o "\n"]
      ELSE [event |-> "Text", text |-> b.text],
      [event |-> "End", tag |-> b.kind]>>

RECURSIVE Events(_, _)
Events(body, i) ==
    IF i > Len(body) THEN <<>> ELSE BlockEvents(body[i]) \o Events(body, i + 1)

\* str::lines().next(), None for the empty text
FirstLine(s) ==
    IF s = "" THEN None
    ELSE LET n == FindFrom(s, "\n", 1) IN
         IF n = 0 THEN s ELSE SubSeq(s, 1, n - 1)

\* the loop of get_title over the events (lines 40-52), from event i on;
\* None when the loop ends without a return
RECURSIVE TitleFromEvents(_, _)
TitleFromEvents(events, i) ==
    IF i > Len(events) THEN None
    ELSE IF events[i].event = "Start" /\ events[i].tag = "H1" THEN ""
    ELSE IF events[i].event = "Text" THEN events[i].text
    ELSE TitleFromEvents(events, i + 1)

\* get_title, had the heading been looked for before the frontmatter
get_title_HeadingFirst(parsed) ==
    LET found == TitleFromEvents(parsed.events, 1) IN
    IF found # None THEN found
    ELSE IF parsed.frontmatter.title # None THEN parsed.frontmatter.title
    ELSE LET line == FirstLine(parsed.raw_content) IN
         IF line = None THEN "Untitled" ELSE line

get_title(parsed) ==
    IF parsed.frontmatter.title # None THEN parsed.frontmatter.title
    ELSE LET found == TitleFromEvents(parsed.events, 1) IN
         IF found # None THEN found
         ELSE LET line == FirstLine(parsed.raw_content) IN
              IF line = None THEN "Untitled" ELSE line

\* values of the time and date fields: RFC 3339 timestamps, bare dates, and
\* text that is no date
Rfc3339Strings == {"2024-03-01T10:00:00Z", "2023-12-31T23:59:59Z"}

BareDates == {"2024-01-01"}

NoDates == {"soon"}

\* DateTime::parse_from_rfc3339(..).ok().map(|dt| dt.naive_utc()), on the
\* values above: the timestamps are in UTC, so naive_utc drops the "Z"
parse_from_rfc3339(date_str) ==
    IF date_str \in Rfc3339Strings THEN SubSeq(date_str, 1, 19) ELSE None

\* NaiveDateTime::parse_from_str(date_str, "%Y-%m-%d").ok(), on the values
\* above: the format gives no time of day, and chrono makes no
\* NaiveDateTime without one
naive_date_time_parse_from_str(date_str) == None

get_date(parsed) ==
    LET date_str == IF parsed.frontmatter.time # None THEN parsed.frontmatter.time
                    ELSE parsed.frontmatter.date
    IN  IF date_str = None THEN None
        ELSE LET dt == parse_from_rfc3339(date_str) IN
             IF dt # None THEN dt ELSE naive_date_time_parse_from_str(date_str)

DateStrings == Rfc3339Strings \cup BareDates \cup NoDates \cup {None}

TitleCalls(n) ==
    {[fn |-> "get_title",
      arg |-> [frontmatter |-> [EmptyFrontmatter EXCEPT !.title = t],
               body |-> b, raw_content |-> RawContent(b, 1),
               events |-> Events(b, 1)],
      result |-> Pending, done |-> FALSE] : t \in {None, "T", "Head"}, b \in Bodies(n)}

DateCalls ==
    {[fn |-> "get_date",
      arg |-> [frontmatter |-> [EmptyFrontmatter EXCEPT !.time = t, !.date = d]],
      result |-> Pending, done |-> FALSE] : t \in DateStrings, d \in DateStrings}

InitMarkdown ==
    fs = {} /\ InitCompile /\ call \in TitleCalls(MaxBlocks) \cup DateCalls

\* get_title returns
ReturnGetTitle ==
    /\ call.fn = "get_title" /\ ~call.done
    /\ call' = [call EXCEPT !.result = get_title(call.arg), !.done = TRUE]
    /\ UNCHANGED others

\* get_date returns
ReturnGetDate ==
    /\ call.fn = "get_date" /\ ~call.done
    /\ call' = [call EXCEPT !.result = get_date(call.arg), !.done = TRUE]
    /\ UNCHANGED others

NextMarkdown == ReturnGetTitle \/ ReturnGetDate

SpecMarkdown == InitMarkdown /\ [][NextMarkdown]_vars

(***************************************************************************)
(* StorageDB::search_pages and search_pages_count (storage.rs 445-509)     *)
(* examined on their own, on stores of a few page rows.                    *)
(***************************************************************************)
Upper == "ABCDEFGHIJKLMNOPQRSTUVWXYZ"

\* SQLite folds the ASCII letters of both operands of LIKE
Lower(ch) ==
    LET i == FindFrom(Upper, ch, 1) IN
    IF Len(ch) = 1 /\ i # 0 THEN CharAt(Alphabet, CharRank("a") + i - 1) ELSE ch

\* SQLite's LIKE without ESCAPE, s from position i against pattern from
\* position j: "%" stands for any run of characters, "_" for any one
\* character, and letters match without regard to case
RECURSIVE LikeFrom(_, _, _, _)
LikeFrom(s, pattern, i, j) ==
    IF j > Len(pattern) THEN i > Len(s)
    ELSE IF CharAt(pattern, j) = "%"
    THEN \E k \in i..(Len(s) + 1) : LikeFrom(s, pattern, k, j + 1)
    ELSE /\ i <= Len(s)
         /\ \/ CharAt(pattern, j) = "_"
            \/ Lower(CharAt(s, i)) = Lower(CharAt(pattern, j))
         /\ LikeFrom(s, pattern, i + 1, j + 1)

Like(s, pattern) == LikeFrom(s, pattern, 1, 1)

\* format!("%{}%", query)
search_pattern(query) == "%" \o query \o "%"

\* the WHERE clause of both statements
SearchMatches(rows, query) ==
    {r \in rows : /\ \/ Like(r.title, search_pattern(query))
                     \/ Like(r.content, search_pattern(query))
                  /\ r.page_type # "index"}

\* the CASE of the ORDER BY clause: both WHEN arms test the same pattern
SearchRank(r, query) ==
    IF Like(r.title, search_pattern(query)) THEN 2
    ELSE IF Like(r.title, search_pattern(query)) THEN 1
    ELSE 0

\* ORDER BY rank DESC, updated_at DESC; rows equal in both come in any order
SearchOrders(rows, query) ==
    {p \in Perms(SearchMatches(rows, query)) :
        \A i, j \in DOMAIN p :
            i < j => \/ SearchRank(p[i], query) > SearchRank(p[j], query)
                     \/ /\ SearchRank(p[i], query) = SearchRank(p[j], query)
                        /\ p[i].updated_at >= p[j].updated_at}

\* LIMIT ?
Take(p, limit) == SubSeq(p, 1, IF limit < Len(p) THEN limit ELSE Len(p))

\* the sequences search_pages may return
search_pages(rows, query, limit) ==
    {Take(p, limit) : p \in SearchOrders(rows, query)}

search_pages_count(rows, query) == Cardinality(SearchMatches(rows, query))

SearchSlugs == {"s1", "s2"}

\* what a stored page may hold: a title that is the query, begins with it,
\* holds it further on, matches it only as a LIKE pattern or only but for
\* case, or does not match
SearchPayloads ==
    [page_type : {"item", "index"},
     title : {"a_c", "a_cd", "xa_c", "abc", "A_C", "x"},
     content : {"a_c", "z"},
     updated_at : {1, 2}]

SearchPage(slug, v) ==
    [id |-> "item-" \o slug, slug |-> slug, page_type |-> v.page_type,
     title |-> v.title, content |-> v.content, category |-> None,
     updated_at |-> v.updated_at]

\* the stores of up to n rows, one row to a slug
SearchStores(n) ==
    UNION {{{SearchPage(k, f[k]) : k \in K} : f \in [K -> SearchPayloads]} :
              K \in {K \in SUBSET SearchSlugs : Cardinality(K) <= n}}

SearchCalls(n, m) ==
    {[fn |-> "search_pages", arg |-> [rows |-> st, query |-> q, limit |-> l],
      result |-> Pending, done |-> FALSE] :
        st \in SearchStores(n), q \in {"a_c"}, l \in 0..m}
    \cup {[fn |-> "search_pages_count", arg |-> [rows |-> st, query |-> q],
           result |-> Pending, done |-> FALSE] :
             st \in SearchStores(n), q \in {"a_c"}}

InitSearch == fs = {} /\ InitCompile /\ call \in SearchCalls(MaxRows, MaxLimit)

\* search_pages returns
ReturnSearchPages ==
    /\ call.fn = "search_pages" /\ ~call.done
    /\ \E found \in search_pages(call.arg.rows, call.arg.query, call.arg.limit) :
           call' = [call EXCEPT !.result = found, !.done = TRUE]
    /\ UNCHANGED others

\* search_pages_count returns
ReturnSearchPagesCount ==
    /\ call.fn = "search_pages_count" /\ ~call.done
    /\ call' = [call EXCEPT
                   !.result = search_pages_count(call.arg.rows, call.arg.query),
                   !.done = TRUE]
    /\ UNCHANGED others

NextSearch == ReturnSearchPages \/ ReturnSearchPagesCount

SpecSearch == InitSearch /\ [][NextSearch]_vars

(***************************************************************************)
(* replace_attachment_links examined on its own, as compile() calls it:    *)
(* the attachment map is the one of an item whose attachment directory     *)
(* holds some of the files below, and the HTML is a text with links.       *)
(***************************************************************************)
LinkFiles ==
    {File("photo.png", "png", "", 0), File("x_1.png", "png", "", 0),
     File("p.png", "png", "", 0), File("p.png.b", "b", "", 0),
     File("p_l.png", "png", "", 0),
     File("x_2.b", "b", "", 0), File("x_2.b.bk", "bk", "", 0)}

\* the maps compile() builds (lines 80-82) for the item directory x, for
\* every listing of up to n of the files
Maps(n) ==
    {attachment_map([attachments |-> scan_attachments("x", l)]) :
        l \in UNION {Perms(S) : S \in {S \in SUBSET LinkFiles : Cardinality(S) <= n}}}

\* a link as markdown authors write it, with or without the leading "./"
Refs ==
    [prefix : {"./attachment/", "attachment/"},
     name : {f.name : f \in LinkFiles} \cup {"other.png"}]

RefSeqs(n) == UNION {[1..k -> Refs] : k \in 1..n}

\* the HTML text made of the links
RECURSIVE Html(_, _)
Html(refs, i) ==
    IF i > Len(refs) THEN ""
    ELSE "<" \o refs[i].prefix \o refs[i].name \o ">" \o Html(refs, i + 1)

LinkCalls(n, k) ==
    {[fn |-> "replace_attachment_links",
      arg |-> [refs |-> r, html |-> Html(r, 1), attachment_map |-> m],
      result |-> Pending, done |-> FALSE] : r \in RefSeqs(n), m \in Maps(k)}

InitLinks == fs = {} /\ InitCompile /\ call \in LinkCalls(MaxRefs, MaxPairs)

\* replace_attachment_links returns
ReturnReplaceAttachmentLinks ==
    /\ call.fn = "replace_attachment_links" /\ ~call.done
    /\ call' = [call EXCEPT
                   !.result = replace_attachment_links(call.arg.html,
                                                       call.arg.attachment_map),
                   !.done = TRUE]
    /\ UNCHANGED others

NextLinks == ReturnReplaceAttachmentLinks

SpecLinks == InitLinks /\ [][NextLinks]_vars

(***************************************************************************)
(* Properties.                                                             *)
(***************************************************************************)
ErrorResults ==
    {"scan_error", "render_error", "pages_error", "attachments_error", "metadata_error"}

\* table pages as the page batch of c's compile() leaves it when it runs on
\* the storage the compile() found
PagesAfterBatch(c) ==
    save_pages_batch(before[c].pages, pages_to_save[c], Now(c, 2))

\* table attachments as the attachment batch of c's compile() leaves it
AttachmentsAfterBatch(c) ==
    save_attachments_batch(before[c].attachments, attachments_to_save[c], Now(c, 3))

\* every page of c's batch has a row written by that batch
PageBatchCommitted(c) ==
    \A i \in DOMAIN pages_to_save[c] :
        \E r \in pages : r.slug = pages_to_save[c][i].slug /\ r.updated_at = Now(c, 2)

\* every attachment of c's batch has a row written by that batch
AttachmentBatchCommitted(c) ==
    \A i \in DOMAIN attachments_to_save[c] :
        \E r \in attachments :
            r.id = attachments_to_save[c][i].id /\ r.updated_at = Now(c, 3)

PageRowVisible(c) == \E r \in pages : r.updated_at = Now(c, 2)

AttachmentRowVisible(c) == \E r \in attachments : r.updated_at = Now(c, 3)

\* C1: when compile() returns an error of the Scanner or of the Renderer,
\* pages, attachments and last_compiled are what they were when it began.
C1_NoWriteOnScanOrRenderError ==
    \A c \in Triggers :
        solo[c] /\ result[c] \in {"scan_error", "render_error"}
            => Snapshot = before[c]

\* a render error in a compile() that found a published snapshot and had
\* scanned a page the snapshot does not hold
C1_Witness ==
    \E c \in Triggers :
        /\ solo[c] /\ result[c] = "render_error"
        /\ pages # {}
        /\ \E i \in DOMAIN PagesToSave(site_content[c], 0) :
              get_page(pages, PagesToSave(site_content[c], 0)[i].slug) = {}

\* C2: whenever compile() returns an error, whoever raised it, pages,
\* attachments and last_compiled are what they were when it began.
C2_NothingPersistedOnAnyError ==
    \A c \in Triggers :
        solo[c] /\ result[c] \in ErrorResults => Snapshot = before[c]

\* C3: when the attachment batch fails, the pages of the page batch stay,
\* no attachment of the batch is stored, last_compiled is not updated and
\* compile() has returned.
C3_AttachmentFailureKeepsPages ==
    \A c \in Triggers :
        solo[c] /\ result[c] = "attachments_error"
            => /\ pages = PagesAfterBatch(c)
               /\ PageBatchCommitted(c)
               /\ attachments = before[c].attachments
               /\ last_compiled = before[c].last_compiled
               /\ pc[c] = "idle"

\* the attachment batch failed after its first INSERT had been executed
C3_Witness ==
    \E c \in Triggers :
        /\ solo[c] /\ result[c] = "attachments_error"
        /\ Len(attachments_to_save[c]) >= 2
        /\ txi[c] = 2

\* C4: the page batch commits first, then the attachment batch, then
\* last_compiled is set, each only after the one before succeeded.
C4_PersistenceOrder ==
    \A c \in Triggers :
        solo[c] =>
            /\ AttachmentRowVisible(c) => PageBatchCommitted(c)
            /\ last_compiled = Now(c, 4)
                  => PageBatchCommitted(c) /\ AttachmentBatchCommitted(c)
            /\ result[c] = "pages_error"
                  => ~PageRowVisible(c) /\ ~AttachmentRowVisible(c)
                        /\ last_compiled # Now(c, 4)
            /\ result[c] = "attachments_error"
                  => ~AttachmentRowVisible(c) /\ last_compiled # Now(c, 4)
            /\ result[c] = "ok"
                  => last_compiled = Now(c, 4)

\* a compile() with attachments has set last_compiled
C4_Witness ==
    \E c \in Triggers :
        /\ solo[c] /\ result[c] = "ok"
        /\ last_compiled = Now(c, 4)
        /\ attachments_to_save[c] # <<>>

\* c's compile() stands between its page commit and its attachment commit
InWindow(c) == pc[c] \in {"save_attachments", "tx_attachments"}

\* C5: between the two commits of a compile(), a reader is served the item
\* pages that compile() wrote and none of the attachment rows it is writing.
C5_PageVisibleBeforeAttachments ==
    \A c \in Triggers :
        solo[c] /\ InWindow(c) =>
            \A i \in DOMAIN attachments_to_save[c] :
                LET a == attachments_to_save[c][i] IN
                /\ \E p \in serve_page(pages, a.slug) : p.updated_at = Now(c, 2)
                /\ \A r \in serve_attachment(attachments, a.filename) :
                      r.updated_at # Now(c, 3)

\* a reader is served an item page that links an attachment which is not
\* in storage yet
C5_Witness ==
    \E c \in Triggers :
        /\ solo[c] /\ InWindow(c)
        /\ \E i \in DOMAIN attachments_to_save[c] :
              LET a == attachments_to_save[c][i] IN
              /\ \E p \in serve_page(pages, a.slug) :
                    /\ p.updated_at = Now(c, 2)
                    /\ Contains(p.content, "attachment/" \o a.filename)
              /\ serve_attachment(attachments, a.filename) = {}

\* C6: compile() invocations of different triggers are not serialized.  When
\* one ended before the other began, storage holds the later one's rows;
\* otherwise each table holds the batch of one of them, whichever committed
\* it last, and the two tables need not hold the same invocation's batch.
C6_EachTableFromOneInvocation ==
    \A c, d \in Triggers :
        c # d /\ result[c] = "ok" /\ result[d] = "ok" /\ src[c] = src[d] =>
            /\ PageBatchCommitted(c) \/ PageBatchCommitted(d)
            /\ AttachmentBatchCommitted(c) \/ AttachmentBatchCommitted(d)
            /\ solo[d] /\ before[d].last_compiled = Now(c, 4)
                  => PageBatchCommitted(d) /\ AttachmentBatchCommitted(d)

\* both invocations returned Ok; the pages are those of one and the
\* attachments those of the other
C6_Witness ==
    \E c, d \in Triggers :
        /\ c # d /\ result[c] = "ok" /\ result[d] = "ok" /\ src[c] = src[d]
        /\ attachments_to_save[c] # <<>>
        /\ PageBatchCommitted(c) /\ ~PageBatchCommitted(d)
        /\ AttachmentBatchCommitted(d) /\ ~AttachmentBatchCommitted(c)

PagesDone(c) ==
    \/ pc[c] \in {"save_attachments", "tx_attachments", "update_time"}
    \/ result[c] \in {"attachments_error", "metadata_error", "ok"}

AttachmentsDone(c) ==
    \/ pc[c] = "update_time"
    \/ result[c] \in {"metadata_error", "ok"}

\* C7: a batch is all-or-nothing.  Until it commits, and when it fails, the
\* committed table is what it was; once it has committed, the table holds the
\* whole batch; a reader sees one or the other.
C7_BatchAllOrNothing ==
    \A c \in Triggers :
        solo[c] /\ run[c] > 0 =>
            /\ pages = IF PagesDone(c) THEN PagesAfterBatch(c) ELSE before[c].pages
            /\ PagesDone(c) => PageBatchCommitted(c)
            /\ attachments = IF AttachmentsDone(c) THEN AttachmentsAfterBatch(c)
                             ELSE before[c].attachments
            /\ AttachmentsDone(c) => AttachmentBatchCommitted(c)

\* a page batch has executed some of its INSERTs and not committed
C7_Witness ==
    \E c \in Triggers :
        /\ solo[c] /\ pc[c] = "tx_pages" /\ lock = c
        /\ txi[c] > 2 /\ txi[c] <= Len(pages_to_save[c])
        /\ tx # pages

\* the row's source is part of the scan: the category or item of a page,
\* the item and original file of an attachment
PageSourceScanned(sc, r) ==
    \/ r.page_type = "index"
    \/ \E i \in DOMAIN sc.categories :
          \/ r.page_type = "category" /\ sc.categories[i].url = r.slug
          \/ \E j \in DOMAIN sc.categories[i].items :
                r.page_type = "item" /\ sc.categories[i].items[j].url = r.slug

AttachmentSourceScanned(sc, r) ==
    \E i \in DOMAIN sc.categories :
        \E j \in DOMAIN sc.categories[i].items :
            LET item == sc.categories[i].items[j] IN
            /\ item.url = r.slug
            /\ \E k \in DOMAIN item.attachments :
                  item.attachments[k].original_name = r.original_name

\* C8: a commit of compile() removes no page slug and no attachment filename,
\* and leaves every row unchanged whose source is absent from its scan.
C8_CompileNeverDeletes ==
    [][\A c \in Triggers :
          lock = c =>
              /\ \A r \in pages :
                    /\ \E q \in pages' : q.slug = r.slug
                    /\ ~PageSourceScanned(site_content[c], r) => r \in pages'
              /\ \A r \in attachments :
                    /\ \E q \in attachments' : q.filename = r.filename
                    /\ ~AttachmentSourceScanned(site_content[c], r) => r \in attachments'
      ]_vars

PageContents(rows) == {<<r.slug, r.content>> : r \in rows}

AttachmentNames(rows) == {r.filename : r \in rows}

AttachmentAssignment(rows) == {<<r.slug, r.original_name, r.filename>> : r \in rows}

\* C9: a compile() of the tree that the compile() before it published leaves
\* every page content, the set of attachment filenames and the assignment of
\* original names to filenames as they were.
C9_Idempotent ==
    \A c, d \in Triggers :
        /\ c # d /\ result[c] = "ok" /\ result[d] = "ok" /\ solo[d]
        /\ before[d].last_compiled = Now(c, 4)
        /\ src[c] = src[d]
        => /\ PageContents(pages) = PageContents(before[d].pages)
           /\ AttachmentNames(attachments) = AttachmentNames(before[d].attachments)
           /\ AttachmentAssignment(attachments) = AttachmentAssignment(before[d].attachments)

\* the fields of a row other than updated_at, which storage sets itself
PageFields(r) == [r EXCEPT !.updated_at = 0]

AttachmentFields(r) == [r EXCEPT !.updated_at = 0]

\* C10: after any sequence of saves, storage holds at most one page row per
\* slug and at most one attachment row per filename, and get_page and
\* get_attachment return the fields of the record saved last under the key.
C10_UpsertByUniqueKey ==
    /\ \A r, q \in pages : r.slug = q.slug => r = q
    /\ \A r, q \in attachments : r.filename = q.filename => r = q
    /\ \A slug \in DOMAIN saved_page :
          {PageFields(r) : r \in get_page(pages, slug)} = {saved_page[slug]}
    /\ \A filename \in DOMAIN saved_attachment :
          {AttachmentFields(r) : r \in get_attachment(attachments, filename)}
              = {saved_attachment[filename]}

\* a call of fn has returned
Returned(fn) == call.fn = fn /\ call.done

\* all items of a scan result, category by category
RECURSIVE AllItems(_, _)
AllItems(categories, i) ==
    IF i > Len(categories) THEN <<>>
    ELSE categories[i].items \o AllItems(categories, i + 1)

\* the slugs of the pages of a scan result: index, categories, items
Slugs(site) ==
    <<"index">> \o [i \in DOMAIN site.categories |-> site.categories[i].url]
        \o [i \in DOMAIN AllItems(site.categories, 1) |->
               AllItems(site.categories, 1)[i].url]

\* C11: the slugs of one scan are pairwise different and none of a category
\* or item is "index", so that a compile on an empty store leaves one page
\* row per category and item, and the index.
C11_SlugsUnique ==
    Returned("scan") =>
        LET slugs == Slugs(call.result) IN
        /\ \A i, j \in DOMAIN slugs : i # j => slugs[i] # slugs[j]
        /\ Cardinality(save_pages_batch({}, PagesToSave(call.result, 1), 1))
              = Len(slugs)

\* C16: the categories a scan returns, and the category pages compile()
\* builds from them, are in strictly ascending order of name.
C16_CategoriesAscending ==
    Returned("scan") =>
        LET categories == call.result.categories
            built == PagesToSave(call.result, 1)
        IN  /\ \A i, j \in DOMAIN categories :
                  i < j => StrCmp(categories[i].name, categories[j].name) = "lt"
            /\ \A i, j \in DOMAIN built :
                  i < j /\ built[i].page_type = "category"
                        /\ built[j].page_type = "category"
                  => StrCmp(built[i].title, built[j].title) = "lt"

\* three categories come back in ascending order from a listing that gave
\* them in another order
C16_Witness ==
    /\ Returned("scan")
    /\ Len(call.result.categories) >= 3
    /\ \E i, j \in DOMAIN call.arg.listing.cats :
          /\ i < j
          /\ ~StartsWithDot(call.arg.listing.cats[i])
          /\ StrCmp(call.arg.listing.cats[j], call.arg.listing.cats[i]) = "lt"
          /\ \E k \in DOMAIN call.result.categories :
                call.result.categories[k].name = call.arg.listing.cats[j]

\* C17: in every category of a scan the dated items come first, newest
\* first, and the undated items follow in ascending order of item name,
\* whatever the order of the listings.
C17_ItemsOrdered ==
    Returned("scan") =>
        \A c \in DOMAIN call.result.categories :
            LET items == call.result.categories[c].items IN
            \A i, j \in DOMAIN items :
                i < j =>
                    /\ items[i].date = None => items[j].date = None
                    /\ items[i].date # None /\ items[j].date # None
                          => StrCmp(items[i].date, items[j].date) \in {"gt", "eq"}
                    /\ items[i].date = None /\ items[j].date = None
                          => StrCmp(items[i].item_name, items[j].item_name)
                                 \in {"lt", "eq"}

\* a category of two dated and two undated items, from a listing that gave
\* an undated item's directory first
C17_Witness ==
    /\ Returned("scan")
    /\ Len(call.arg.listing.items) > 0 /\ call.arg.listing.items[1] = "a/z"
    /\ \E c \in DOMAIN call.result.categories :
          LET items == call.result.categories[c].items IN
          /\ Cardinality({i \in DOMAIN items : items[i].date # None}) = 2
          /\ Cardinality({i \in DOMAIN items : items[i].date = None}) = 2
          /\ items[1].date = "2024-03-01"

\* the category has a markdown file in one of its item directories
HasItem(tree, category_name) ==
    \E d \in tree : DirOf(d).category = category_name /\ DirOf(d).docs # {}

\* C18: a category directory is in the scan result, and gets a category
\* page, exactly if it is not dot-prefixed and has an index document or an
\* item.
C18_CategoryIncluded ==
    Returned("scan") =>
        LET names == {call.result.categories[i].name :
                         i \in DOMAIN call.result.categories}
            built == PagesToSave(call.result, 1)
        IN  /\ names \subseteq CategoryDirs(call.arg.tree)
            /\ \A c \in CategoryDirs(call.arg.tree) :
                  /\ c \in names <=>
                        /\ ~StartsWithDot(c)
                        /\ HasIndex(c) \/ HasItem(call.arg.tree, c)
                  /\ c \in names <=>
                        \E i \in DOMAIN built :
                            built[i].page_type = "category" /\ built[i].slug = c

\* a tree with a dot-prefixed category, a category with neither index nor
\* item, and a category with an index alone: only the last is in the result
C18_Witness ==
    /\ Returned("scan")
    /\ {".h/x", "e/z", "a-x/z"} \subseteq call.arg.tree
    /\ {call.result.categories[i].name : i \in DOMAIN call.result.categories}
          \cap {".h", "e", "a-x"} = {"a-x"}

\* C19: when a source of the tree cannot be read or parsed, scan() returns
\* an error.
C19_FailFast ==
    Returned("scan_result") => ~call.result.ok

\* an entry scan_attachments does not skip: a file that is not hidden
Kept(e) == ~e.is_dir /\ ~StartsWithDot(e.name)

\* C12: of a listing with N files that are not hidden, among hidden files
\* and subdirectories in any order, scan_attachments makes N attachments;
\* the k-th of them is the k-th such file of the listing and is named
\* "{item_dir}_{k}.{ext}" with the file's extension, so the names differ.
C12_AttachmentNames ==
    Returned("scan_attachments") =>
        LET files == SelectSeq(call.arg.entries, Kept)
            made == call.result
        IN  /\ Len(made) = Len(files)
            /\ \A k \in DOMAIN made :
                  /\ made[k].original_name = files[k].name
                  /\ made[k].new_name
                        = call.arg.item_dir \o "_" \o ToString(k) \o "." \o files[k].ext
            /\ \A j, k \in DOMAIN made :
                  j # k => made[j].new_name # made[k].new_name

\* three files get the counters 1, 2, 3 although the listing begins with a
\* subdirectory and has a hidden file between them
C12_Witness ==
    /\ Returned("scan_attachments")
    /\ Len(call.result) = 3
    /\ call.arg.entries[1].is_dir
    /\ \E i, j, k \in DOMAIN call.arg.entries :
          /\ i < j /\ j < k
          /\ Kept(call.arg.entries[i]) /\ Kept(call.arg.entries[k])
          /\ StartsWithDot(call.arg.entries[j].name)
    /\ call.result[3].new_name \in {"x_3.jpg", "x_3.png", "x_3."}

\* c's compile() of the fruit tree on an empty store returned Ok, and no
\* other compile() ran meanwhile
FruitCompiled(c) ==
    /\ solo[c] /\ result[c] = "ok"
    /\ src[c] = {"fruit/apple"}
    /\ before[c].pages = {} /\ before[c].attachments = {}

\* C13: after compile() of the fruit tree on an empty store, storage holds
\* the pages index, category-fruit and item-fruit-apple and the one
\* attachment apple_1.jpg, and the item page links attachment/apple_1.jpg
\* where the rendered HTML linked attachment/pic.jpg.
C13_EndToEnd ==
    \A c \in Triggers :
        FruitCompiled(c) =>
            /\ Cardinality(pages) = 3
            /\ {r.id : r \in pages} = {"index", "category-fruit", "item-fruit-apple"}
            /\ {r.filename : r \in attachments} = {"apple_1.jpg"}
            /\ Cardinality(attachments) = 1
            /\ \A a \in attachments :
                  a.original_name = "pic.jpg" /\ a.slug = "fruit-apple"
            /\ \A p \in serve_page(pages, "fruit-apple") :
                  /\ p.content = "<h1>Apple</h1>"
                        \o "<p><img src=\"attachment/apple_1.jpg\">"
                        \o "<a href=\"attachment/apple_1.jpg\">pic</a></p>"
                  /\ Contains(p.content, "attachment/apple_1.jpg")
                  /\ ~Contains(p.content, "attachment/pic.jpg")

\* the compile() has returned Ok and the item page is served
C13_Witness ==
    \E c \in Triggers :
        /\ FruitCompiled(c)
        /\ serve_page(pages, "fruit-apple") # {}
        /\ serve_attachment(attachments, "apple_1.jpg") # {}

\* str::starts_with
StartsWith(s, pat) == MatchAt(s, pat, 1)

\* what a link is to become: the longest original name of the map that the
\* link's file name begins with gives way to its generated name, and the
\* leading "./" goes; a link to no original stays
RewrittenRef(ref, map) ==
    LET hits == {k \in DOMAIN map : StartsWith(ref.name, map[k][1])} IN
    IF hits = {} THEN ref.prefix \o ref.name
    ELSE LET k == CHOOSE k \in hits :
                     \A j \in hits : Len(map[j][1]) <= Len(map[k][1])
         IN  "attachment/" \o map[k][2]
                 \o SubSeq(ref.name, Len(map[k][1]) + 1, Len(ref.name))

RECURSIVE RewrittenHtml(_, _, _)
RewrittenHtml(refs, map, i) ==
    IF i > Len(refs) THEN ""
    ELSE "<" \o RewrittenRef(refs[i], map) \o ">" \o RewrittenHtml(refs, map, i + 1)

\* C14: replace_attachment_links turns every link to an original name of the
\* map into the link to the generated name of that original, and the result
\* holds no "attachment/<original>" of the map any more.
C14_LinksRewritten ==
    Returned("replace_attachment_links") =>
        /\ call.result = RewrittenHtml(call.arg.refs, call.arg.attachment_map, 1)
        /\ \A k \in DOMAIN call.arg.attachment_map :
              ~Contains(call.result, "attachment/" \o call.arg.attachment_map[k][1])

\* C15: when one original name of the map is part of another, a text whose
\* links all go to the longer original comes back with every link going to
\* the generated name of the longer original.
C15_LongestOriginalFirst ==
    Returned("replace_attachment_links") =>
        \A s, l \in DOMAIN call.arg.attachment_map :
            LET short == call.arg.attachment_map[s][1]
                long == call.arg.attachment_map[l][1]
            IN  /\ s # l /\ Contains(long, short)
                /\ \A r \in DOMAIN call.arg.refs : call.arg.refs[r].name = long
                => call.result =
                      Html([r \in DOMAIN call.arg.refs |->
                               [prefix |-> "attachment/",
                                name |-> call.arg.attachment_map[l][2]]], 1)

\* the text begins with the opening delimiter
Opened(t) == t.lead = "" /\ t.open = "---"

\* a text without the leading delimiter parses, with every field of the
\* metadata absent and the whole text as the raw body
NoFrontmatterParses ==
    ~Opened(call.arg.parts) =>
        call.result = Ok([frontmatter |-> EmptyFrontmatter,
                          raw_content |-> call.arg.content])

\* C20 as stated: parse_markdown fails if and only if the text begins with
\* the opening delimiter and has no closing delimiter after it; a text
\* without the leading delimiter parses with empty metadata and the whole
\* text as raw body.
C20_FailsIffUnclosed ==
    Returned("parse_markdown") =>
        /\ ~call.result.ok <=>
              (Opened(call.arg.parts) /\ call.arg.parts.close # "---")
        /\ NoFrontmatterParses

\* C20 amended: parse_markdown fails if and only if the text begins with the
\* opening delimiter and either has no closing delimiter after it or holds a
\* block that serde_yaml cannot read into the metadata; a text without the
\* leading delimiter parses with empty metadata and the whole text as raw
\* body.
C20_FailsIffUnclosedOrInvalid ==
    Returned("parse_markdown") =>
        /\ ~call.result.ok <=>
              /\ Opened(call.arg.parts)
              /\ \/ call.arg.parts.close # "---"
                 \/ call.arg.parts.block \in InvalidFrontmatters
        /\ NoFrontmatterParses

C20_Witness ==
    /\ Returned("parse_markdown")
    /\ Opened(call.arg.parts) /\ call.arg.parts.close = "---"
    /\ call.arg.parts.block \in InvalidFrontmatters
    /\ ~call.result.ok

\* C21: when the frontmatter declares a title, get_title returns exactly
\* that title, whatever the body holds.
C21_FrontmatterTitle ==
    (Returned("get_title") /\ call.arg.frontmatter.title # None) =>
        call.result = call.arg.frontmatter.title

C21_Witness ==
    /\ Returned("get_title")
    /\ call.arg.frontmatter.title = "T"
    /\ Len(call.arg.body) > 0 /\ call.arg.body[1].kind = "H1"
    /\ call.result = "T"

\* the title the fallback order gives a body: the text of its first
\* level-1 heading, else its first line, else "Untitled"
FallbackTitle(body, raw_content) ==
    LET heads == {i \in DOMAIN body : body[i].kind = "H1"} IN
    IF heads # {}
    THEN body[CHOOSE i \in heads : \A j \in heads : i <= j].text
    ELSE IF raw_content # "" THEN FirstLine(raw_content)
    ELSE "Untitled"

\* C22: when the frontmatter declares no title, get_title returns the text
\* of the first level-1 heading of the body, else the first line of the raw
\* body, else "Untitled" for an empty body.
C22_TitleFallback ==
    (Returned("get_title") /\ call.arg.frontmatter.title = None) =>
        call.result = FallbackTitle(call.arg.body, call.arg.raw_content)

\* the field get_date reads: time when present, else date
Chosen(frontmatter) ==
    IF frontmatter.time # None THEN frontmatter.time ELSE frontmatter.date

\* C23: get_date gives a date when the chosen field is an RFC 3339 timestamp
\* or a bare YYYY-MM-DD date, and no date when the field is missing or is
\* no date.
C23_DateResolution ==
    Returned("get_date") =>
        LET chosen == Chosen(call.arg.frontmatter) IN
        /\ chosen \in Rfc3339Strings \cup BareDates => call.result # None
        /\ chosen \in NoDates \cup {None} => call.result = None

\* the tier of a page in the ranking of the spec: 2 when its title is the
\* query, 1 when its title begins with the query, 0 for every other match
Tier(r, query) ==
    IF r.title = query THEN 2 ELSE IF StartsWith(r.title, query) THEN 1 ELSE 0

\* C24: in the result of search_pages every page whose title is the query
\* comes before every page whose title only begins with it, which comes
\* before every other match, and the other matches are in descending order
\* of updated_at.
C24_RankingTiers ==
    Returned("search_pages") =>
        \A i, j \in DOMAIN call.result :
            i < j =>
                /\ Tier(call.result[i], call.arg.query)
                       >= Tier(call.result[j], call.arg.query)
                /\ (Tier(call.result[i], call.arg.query) = 0
                        /\ Tier(call.result[j], call.arg.query) = 0)
                   => call.result[i].updated_at >= call.result[j].updated_at

\* the query occurs in the content of the page and not in its title
ContentOnly(r, query) == Contains(r.content, query) /\ ~Contains(r.title, query)

\* C25: a stored page whose title is the query comes, in the result of
\* search_pages, before every page that holds the query in its content
\* only, whatever their updated_at.
C25_TitleBeforeBody ==
    Returned("search_pages") =>
        \A p \in call.arg.rows : \A j \in DOMAIN call.result :
            (p.title = call.arg.query /\ p.page_type # "index"
                /\ ContentOnly(call.result[j], call.arg.query))
            => \E i \in 1..(j - 1) : call.result[i] = p

\* the stored pages that are no index page and hold the query in the title
\* or in the content
SubstringMatches(rows, query) ==
    {r \in rows : /\ r.page_type # "index"
                  /\ Contains(r.title, query) \/ Contains(r.content, query)}

\* C26: search_pages_count is the number of stored category and item pages
\* that hold the query in title or content, and search_pages returns
\* min(limit, that number) pages, every one of them such a page.
C26_CountAndLimit ==
    LET matches == SubstringMatches(call.arg.rows, call.arg.query) IN
    /\ Returned("search_pages_count") => call.result = Cardinality(matches)
    /\ Returned("search_pages") =>
          /\ Len(call.result) = IF call.arg.limit < Cardinality(matches)
                                THEN call.arg.limit ELSE Cardinality(matches)
          /\ \A i \in DOMAIN call.result : call.result[i] \in matches

\* what the client gets: the body of the row, or nothing for a 404
Body(rows) == {IF "content" \in DOMAIN r THEN r.content ELSE r.file_data : r \in rows}

\* C27: when the startup compile() has failed, the process can start its
\* server, and once the server runs every page and attachment it serves is
\* the one that was in storage before the failed compile().
C27_FailedStartupServesOldSnapshot ==
    result["startup"] \in ErrorResults =>
        /\ server = "down" => ENABLED StartServer
        /\ (server = "up" /\ call.fn = "serve_page") =>
              Body(call.result) = Body(serve_page(before["startup"].pages, call.arg))
        /\ (server = "up" /\ call.fn = "serve_attachment") =>
              Body(call.result) =
                  Body(serve_attachment(before["startup"].attachments, call.arg))

\* c's compile() has returned Ok, it found an empty store, and no other
\* compile() has run since it began
CompiledOnEmptyStore(c) ==
    /\ solo[c] /\ result[c] = "ok"
    /\ before[c].pages = {} /\ before[c].attachments = {}

\* C28: after a successful compile() on an empty store, get_attachment of
\* the generated name of every attachment of every scanned item gives a row
\* with the data and the original name of that attachment and the url of
\* that item as slug, and get_attachments_by_slug of the item's url gives
\* the attachments of that item and no other.
C28_AttachmentsRetrievable ==
    \A c \in Triggers :
        CompiledOnEmptyStore(c) =>
            LET items == AllItems(site_content[c].categories, 1) IN
            \A i \in DOMAIN items :
                /\ \A k \in DOMAIN items[i].attachments :
                      LET found == get_attachment(attachments,
                                                  items[i].attachments[k].new_name)
                      IN  /\ found # {}
                          /\ \A r \in found :
                                /\ r.file_data = items[i].attachments[k].file_data
                                /\ r.original_name = items[i].attachments[k].original_name
                                /\ r.slug = items[i].url
                /\ {r.filename : r \in get_attachments_by_slug(attachments, items[i].url)}
                      = {items[i].attachments[k].new_name :
                            k \in DOMAIN items[i].attachments}

\* C29: a save of pages, by save_page or by save_pages_batch, leaves every
\* row in place and unchanged whose slug is none of the slugs saved, whatever
\* the ids of the rows and of the pages saved.
C29_SaveTouchesOnlyItsKey ==
    [][\A batch \in Batches(PageRecords) :
          (/\ saves' = saves + 1
           /\ pages' = save_pages_batch(pages, batch, StoreNow)
           /\ saved_page' = RememberPages(saved_page, batch, 1))
          => \A r \in pages :
                (\A i \in DOMAIN batch : batch[i].slug # r.slug) => r \in pages'
      ]_vars

\* StorageDB::get_stats, lines 514-546; last_compiled 0 is the absent value
get_stats(page_rows, attachment_rows, compiled) ==
    [total_categories |-> Cardinality({r \in page_rows : r.page_type = "category"}),
     total_items |-> Cardinality({r \in page_rows : r.page_type = "item"}),
     total_attachments |-> Cardinality(attachment_rows),
     last_compiled |-> compiled]

\* the CompileResult that compile() returns, compiler.rs lines 134-140;
\* total_attachments_count grows by one with every push to attachments_to_save
CompileResult(site, to_save) ==
    [success |-> TRUE,
     total_categories |-> Len(site.categories),
     total_items |-> Len(AllItems(site.categories, 1)),
     total_attachments |-> Len(to_save)]

\* C30: after a successful compile() on an empty store, get_stats reports
\* the numbers of categories, items and attachments of the CompileResult of
\* that compile(), and a last_compiled that is set.
C30_StatsMatchCompileResult ==
    \A c \in Triggers :
        CompiledOnEmptyStore(c) =>
            LET stats == get_stats(pages, attachments, last_compiled)
                compiled == CompileResult(site_content[c], attachments_to_save[c])
            IN  /\ stats.total_categories = compiled.total_categories
                /\ stats.total_items = compiled.total_items
                /\ stats.total_attachments = compiled.total_attachments
                /\ stats.last_compiled # 0

====
